---- MODULE Spec2Model ----
(***************************************************************************)
(* The data-cleaning recipe of the analytics dashboard                     *)
(* (frontend/src/components/UnifiedVisualization.tsx, component            *)
(* DataCleaning): the action queue held in React state, the preview that   *)
(* useMemo derives from the baseline dataset and the queue, and the apply  *)
(* boundary that commits the preview as the new baseline.                  *)
(*                                                                         *)
(* JavaScript values are records tagged by the field t:                    *)
(*   [t |-> "null"], [t |-> "undef"], [t |-> "nan"],                       *)
(*   [t |-> "num", n |-> numerator, d |-> denominator]  (an exact          *)
(*        rational in lowest terms, d > 0),                                *)
(*   [t |-> "str", s |-> <<characters>>], [t |-> "bool", b |-> BOOLEAN],   *)
(*   [t |-> "date", ms |-> time value]  (a valid Date).                    *)
(* A string is a sequence of one-character strings, so that trimming,      *)
(* case mapping, substring replacement and number parsing are computed     *)
(* character by character as the code's library calls compute them.        *)
(***************************************************************************)
EXTENDS Integers, Sequences, FiniteSets, TLC

VARIABLES
    dataset,       \* DataContext state `dataset`: [columns, data], the baseline
    actions,       \* DataCleaning state `actions` as of the last render
    preview,       \* the useMemo result of the last render: [data, stats, origin]
    pendActions,   \* setActions updates enqueued since the last render
    pendDataset,   \* setDataset update enqueued since the last render
    toast,         \* the notification the last step raised (none if it raised none)
    applies,       \* number of calls of handleApplyChanges so far
    nextId,        \* number of actions accepted so far: the source of fresh ids
    processed,     \* executor: the fold state while the loop over the queue runs
    pc,            \* executor: number of queue actions folded so far
    replaceInputs, \* state `replaceInputs[name]` of the last render: [find, replaceWith]
    pendInputs,    \* setReplaceInputs updates enqueued since the last render
    table,         \* profiler: the rows handed to the profiling functions
    dateLenient,   \* profiler: whether the engine's Date.parse reads non-ISO digit texts
    columnInfo,    \* profiler: <<result of analyzeColumns>>, <<>> before it ran
    inferred,      \* profiler: <<column types of useRowsAndColumns>>, <<>> before it ran
    correlations,  \* profiler: <<Analytics correlations memo>>, <<>> before it ran
    insightPairs,  \* profiler: <<AIInsights correlation pairs>>, <<>> before they ran
    numbers,       \* statistics: the numbers handed to zScoreOutliers
    thresh,        \* statistics: the threshold handed to zScoreOutliers
    outliers,      \* statistics: <<indices zScoreOutliers returned>>, <<>> before it ran
    now,           \* backend: what Date.now() returns, in ms since the server started
    limits,        \* rate limiter: [perMinute, perDay] of the middleware instance
    store,         \* rate limiter: the module's Map `store`, key -> <<entry>> or <<>>
    served,        \* rate limiter: the requests answered so far: [key, at, outcome]
    isGeminiConfigured, \* gemini.ts: whether GEMINI_API_KEY was set when the module loaded
    gemModel,      \* gemini.ts: the exported `model` (NoModel when null)
    localModel,    \* qa.ts: the module variable `localModel`
    breaker,       \* qa.ts: the circuit breaker [failures, openUntil]
    inflight,      \* qa.ts: the calls awaiting Promise.race: [id, injected, model, deadline]
    settled,       \* qa.ts: <<how the call that ended last ended>>, <<>> before any ended
    calls,         \* qa.ts: number of generateGeminiAnswer calls so far
    failedSince,   \* history: the instants of the failures since the last successful call
    openedAt,      \* history: the instants at which openUntil was set, latest last
    sample,        \* sanitize.ts: the [columns, rows] handed to sanitizeSample
    sanitized      \* sanitize.ts: <<result of sanitizeSample>>, <<>> before it ran

vars == <<dataset, actions, preview, pendActions, pendDataset, toast, applies,
          nextId, processed, pc, replaceInputs, pendInputs,
          table, dateLenient, columnInfo, inferred, correlations, insightPairs,
          numbers, thresh, outliers,
          now, limits, store, served,
          isGeminiConfigured, gemModel, localModel, breaker, inflight, settled, calls,
          failedSince, openedAt, sample, sanitized>>

\* the variables of the queue, the executor and the replace panel
uiVars == <<dataset, actions, preview, pendActions, pendDataset, toast, applies,
            nextId, processed, pc, replaceInputs, pendInputs>>

\* the variables of the profiling functions
profVars == <<table, dateLenient, columnInfo, inferred, correlations, insightPairs>>

\* the variables of the statistics helpers
statVars == <<numbers, thresh, outliers>>

\* the variables outside the cleaning page and the profiler
\* the variables of the rate limiter
limiterVars == <<limits, store, served>>

\* the variables of the question-answering service
qaVars == <<isGeminiConfigured, gemModel, localModel, breaker, inflight, settled, calls,
            failedSince, openedAt>>

\* the variables of the sample sanitizer
sanitizeVars == <<sample, sanitized>>

svcVars == <<statVars, now, limiterVars, qaVars, sanitizeVars>>

-----------------------------------------------------------------------------
(* Sequences and characters                                                *)

Range(f) == {f[i] : i \in DOMAIN f}

RECURSIVE SeqSum(_)
SeqSum(s) == IF s = <<>> THEN 0 ELSE Head(s) + SeqSum(Tail(s))

RECURSIVE SelectByMask(_, _)
SelectByMask(s, mask) ==
    IF s = <<>> THEN <<>>
    ELSE (IF Head(mask) THEN <<Head(s)>> ELSE <<>>) \o SelectByMask(Tail(s), Tail(mask))

\* Array.prototype.filter
FilterSeq(s, Keep(_)) == SelectByMask(s, [i \in 1..Len(s) |-> Keep(s[i])])
\* Array.prototype.map
MapSeq(s, F(_)) == [i \in 1..Len(s) |-> F(s[i])]

DigitChars == <<"0", "1", "2", "3", "4", "5", "6", "7", "8", "9">>
LowerChars == <<"a", "b", "c", "d", "e", "f", "g", "h", "i", "j", "k", "l", "m",
                "n", "o", "p", "q", "r", "s", "t", "u", "v", "w", "x", "y", "z">>
UpperChars == <<"A", "B", "C", "D", "E", "F", "G", "H", "I", "J", "K", "L", "M",
                "N", "O", "P", "Q", "R", "S", "T", "U", "V", "W", "X", "Y", "Z">>
SpaceChars == {" ", "\t", "\n", "\r"}

IndexIn(seq, c) == IF c \in Range(seq) THEN CHOOSE i \in DOMAIN seq : seq[i] = c ELSE 0
IsDigit(c) == c \in Range(DigitChars)
IsLetter(c) == c \in Range(LowerChars) \cup Range(UpperChars)
DigitVal(c) == IndexIn(DigitChars, c) - 1
ToLowerChar(c) == IF c \in Range(UpperChars) THEN LowerChars[IndexIn(UpperChars, c)] ELSE c
ToUpperChar(c) == IF c \in Range(LowerChars) THEN UpperChars[IndexIn(LowerChars, c)] ELSE c
\* the regular expression class \w
IsWordChar(c) == IsLetter(c) \/ IsDigit(c) \/ c = "_"
\* the characters parseNumberLike keeps: [0-9+\-.eE]
IsNumberChar(c) == IsDigit(c) \/ c \in {"+", "-", ".", "e", "E"}

Chars(text) == [t |-> "str", s |-> text]

-----------------------------------------------------------------------------
(* Numbers: exact rationals                                                *)

Abs(i) == IF i < 0 THEN -i ELSE i

RECURSIVE GCD(_, _)
GCD(a, b) == IF b = 0 THEN a ELSE GCD(b, a % b)

RECURSIVE Pow10(_)
Pow10(k) == IF k = 0 THEN 1 ELSE 10 * Pow10(k - 1)

\* the number n/d in lowest terms (d # 0)
Num(n, d) ==
    LET g == GCD(Abs(n), Abs(d))
        sgn == IF d < 0 THEN -1 ELSE 1
    IN  [t |-> "num", n |-> (sgn * n) \div g, d |-> Abs(d) \div g]

IntV(i) == Num(i, 1)
Null == [t |-> "null"]
Undef == [t |-> "undef"]
NaN == [t |-> "nan"]
Bool(b) == [t |-> "bool", b |-> b]

IsNum(v) == v.t = "num"
\* Number.isFinite on what a parse returns
IsFinite(v) == v.t = "num"

RAdd(x, y) == Num(x.n * y.d + y.n * x.d, x.d * y.d)
RSub(x, y) == Num(x.n * y.d - y.n * x.d, x.d * y.d)
RMul(x, y) == Num(x.n * y.n, x.d * y.d)
RDiv(x, y) == Num(x.n * y.d, x.d * y.n)
RLess(x, y) == x.n * y.d < y.n * x.d
RLeq(x, y) == x.n * y.d <= y.n * x.d
\* Math.floor, Math.trunc and Math.round (half rounds up)
RFloor(x) == x.n \div x.d
RTrunc(x) == IF x.n >= 0 THEN x.n \div x.d ELSE -((-x.n) \div x.d)
RRound(x) == RFloor(RAdd(x, Num(1, 2)))

RECURSIVE RSum(_)
RSum(s) == IF s = <<>> THEN IntV(0) ELSE RAdd(Head(s), RSum(Tail(s)))

-----------------------------------------------------------------------------
(* String library calls                                                    *)

RECURSIVE DropLeadingSpace(_)
DropLeadingSpace(s) ==
    IF s # <<>> /\ Head(s) \in SpaceChars THEN DropLeadingSpace(Tail(s)) ELSE s

RECURSIVE DropTrailingSpace(_)
DropTrailingSpace(s) ==
    IF s # <<>> /\ s[Len(s)] \in SpaceChars
    THEN DropTrailingSpace(SubSeq(s, 1, Len(s) - 1)) ELSE s

\* String.prototype.trim
StrTrim(s) == DropTrailingSpace(DropLeadingSpace(s))
\* String.prototype.toLowerCase / toUpperCase
StrLower(s) == MapSeq(s, ToLowerChar)
StrUpper(s) == MapSeq(s, ToUpperChar)

IsPrefix(p, s) == Len(p) <= Len(s) /\ SubSeq(s, 1, Len(p)) = p

RECURSIVE StrReplaceAll(_, _, _)
\* String.prototype.replaceAll with a non-empty literal pattern: leftmost,
\* non-overlapping occurrences
StrReplaceAll(s, find, with) ==
    IF s = <<>> THEN <<>>
    ELSE IF IsPrefix(find, s)
         THEN with \o StrReplaceAll(SubSeq(s, Len(find) + 1, Len(s)), find, with)
         ELSE <<Head(s)>> \o StrReplaceAll(Tail(s), find, with)

\* s.replace(/[^\p{L}\p{N}\s]/gu, "")
StrKeepAlphanum(s) ==
    LET Keep(c) == IsLetter(c) \/ IsDigit(c) \/ c \in SpaceChars IN FilterSeq(s, Keep)

\* s.replace(/\b\w/g, c => c.toUpperCase()): a word character is at a word
\* boundary when the character before it is not a word character
StrCapitalize(s) ==
    [i \in 1..Len(s) |->
        IF IsWordChar(s[i]) /\ (i = 1 \/ ~IsWordChar(s[i - 1]))
        THEN ToUpperChar(s[i]) ELSE s[i]]

-----------------------------------------------------------------------------
(* Number <-> text                                                         *)

AllDigits(s) == \A i \in 1..Len(s) : IsDigit(s[i])

RECURSIVE DigitsVal(_)
\* the value of a digit string ("" is 0)
DigitsVal(s) ==
    IF s = <<>> THEN 0 ELSE 10 * DigitsVal(SubSeq(s, 1, Len(s) - 1)) + DigitVal(s[Len(s)])

FirstIndex(s, Hit(_)) ==
    IF \E i \in 1..Len(s) : Hit(s[i])
    THEN CHOOSE i \in 1..Len(s) : Hit(s[i]) /\ \A j \in 1..(i - 1) : ~Hit(s[j])
    ELSE 0

\* StrUnsignedDecimalLiteral without exponent: digits [. digits] or . digits
DecimalOk(m) ==
    LET IsDot(c) == c = "."
        dot == FirstIndex(m, IsDot)
        ip == IF dot = 0 THEN m ELSE SubSeq(m, 1, dot - 1)
        fp == IF dot = 0 THEN <<>> ELSE SubSeq(m, dot + 1, Len(m))
    IN  AllDigits(ip) /\ AllDigits(fp) /\ (ip # <<>> \/ fp # <<>>)

DecimalVal(m) ==
    LET IsDot(c) == c = "."
        dot == FirstIndex(m, IsDot)
        ip == IF dot = 0 THEN m ELSE SubSeq(m, 1, dot - 1)
        fp == IF dot = 0 THEN <<>> ELSE SubSeq(m, dot + 1, Len(m))
    IN  Num(DigitsVal(ip) * Pow10(Len(fp)) + DigitsVal(fp), Pow10(Len(fp)))

\* the exponent part after e/E: [+-] digits, at least one digit
ExponentOk(x) ==
    LET body == IF x # <<>> /\ Head(x) \in {"+", "-"} THEN Tail(x) ELSE x
    IN  body # <<>> /\ AllDigits(body)

ExponentVal(x) ==
    LET neg == x # <<>> /\ Head(x) = "-"
        body == IF x # <<>> /\ Head(x) \in {"+", "-"} THEN Tail(x) ELSE x
    IN  IF neg THEN -DigitsVal(body) ELSE DigitsVal(body)

\* Number(text) for a text of number characters [0-9+\-.eE] (StringToNumber):
\* the empty text is 0, a malformed literal is NaN
NumberOfNumberChars(s) ==
    IF s = <<>> THEN IntV(0)
    ELSE
      LET neg == Head(s) = "-"
          u == IF Head(s) \in {"+", "-"} THEN Tail(s) ELSE s
          IsE(c) == c \in {"e", "E"}
          e == FirstIndex(u, IsE)
          m == IF e = 0 THEN u ELSE SubSeq(u, 1, e - 1)
          x == IF e = 0 THEN <<>> ELSE SubSeq(u, e + 1, Len(u))
      IN  IF ~DecimalOk(m) \/ (e # 0 /\ ~ExponentOk(x)) THEN NaN
          ELSE
            LET mv == DecimalVal(m)
                k == IF e = 0 THEN 0 ELSE ExponentVal(x)
                sv == IF k >= 0 THEN RMul(mv, IntV(Pow10(k)))
                      ELSE RDiv(mv, IntV(Pow10(-k)))
            IN  IF neg THEN RSub(IntV(0), sv) ELSE sv

\* Number(text) for any text: surrounding white space is ignored; a text
\* holding a character that no decimal literal holds is NaN (hexadecimal,
\* binary, octal and Infinity literals are outside the modelled texts)
NumberOfText(s) ==
    LET w == StrTrim(s)
    IN  IF \A i \in 1..Len(w) : IsNumberChar(w[i]) THEN NumberOfNumberChars(w) ELSE NaN

RECURSIVE NatDigits(_)
NatDigits(k) ==
    IF k < 10 THEN <<DigitChars[k + 1]>>
    ELSE NatDigits(k \div 10) \o <<DigitChars[(k % 10) + 1]>>

RECURSIVE FracDigits(_, _, _)
\* long division of r/d (r < d): the fraction digits, at most k of them
FracDigits(r, d, k) ==
    IF r = 0 \/ k = 0 THEN <<>>
    ELSE <<DigitChars[((r * 10) \div d) + 1]>> \o FracDigits((r * 10) % d, d, k - 1)

\* the fraction digits kept of a number with no finite decimal expansion
\* (String(number) prints the 16 or 17 significant digits of the double; the
\* text of an exact quotient is cut after this many fraction digits)
MaxFracDigits == 4

\* String(number) in decimal notation (exponent notation, used from 1e21
\* and below 1e-6, is outside the modelled magnitudes)
NumToText(v) ==
    LET a == Abs(v.n)
        ip == NatDigits(a \div v.d)
        fp == FracDigits(a % v.d, v.d, MaxFracDigits)
    IN  (IF v.n < 0 THEN <<"-">> ELSE <<>>) \o ip
        \o (IF fp = <<>> THEN <<>> ELSE <<".">> \o fp)

\* String(v)
ToText(v) ==
    CASE v.t = "str" -> v.s
      [] v.t = "num" -> NumToText(v)
      [] v.t = "null" -> <<"n", "u", "l", "l">>
      [] v.t = "undef" -> <<"u", "n", "d", "e", "f", "i", "n", "e", "d">>
      [] v.t = "nan" -> <<"N", "a", "N">>
      [] v.t = "bool" -> IF v.b THEN <<"t", "r", "u", "e">> ELSE <<"f", "a", "l", "s", "e">>


-----------------------------------------------------------------------------
(* Utility helpers of the component                                        *)

\* v === w: NaN equals nothing; a value of the model carries no identity, so
\* two equal values are the same primitive.  Two Dates are compared only by
\* setCell, which takes equal instants as equal (line 1311)
StrictEq(v, w) == v = w /\ v.t # "nan"

isNullish(v) == v.t \in {"null", "undef"} \/ v = Chars(<<>>)

\* v == null
IsNullOrUndef(v) == v.t \in {"null", "undef"}

\* String(date) ends "... hh:mm:ss GMT+hhmm (zone name)" in every time zone:
\* the kept characters hold a sign after digits, which Number reads as NaN
parseNumberLike(v) ==
    IF v.t \in {"null", "undef"} THEN NaN
    ELSE IF v.t \in {"num", "nan"} THEN v
    ELSE IF v.t = "date" THEN NaN
    ELSE NumberOfNumberChars(FilterSeq(ToText(v), IsNumberChar))

\* a valid Date with time value ms
DateV(ms) == [t |-> "date", ms |-> ms]

\* new Date(text): a text without a digit is no date in any engine (texts
\* with digits are outside the modelled column values)
DateOfText(text) ==
    CASE \A i \in 1..Len(text) : ~IsDigit(text[i]) -> Null

\* toDateOrNull: new Date(v) takes a Date as it is, reads a text as a date
\* and any other value as the number of milliseconds ToNumber gives (null
\* is 0, undefined is NaN); an invalid Date becomes null
toDateOrNull(v) ==
    CASE v.t = "date" -> v
      [] v.t = "str" -> DateOfText(v.s)
      [] v.t = "null" -> DateV(0)
      [] v.t = "bool" -> DateV(IF v.b THEN 1 ELSE 0)
      [] v.t = "num" -> DateV(RTrunc(v))
      [] v.t \in {"undef", "nan"} -> Null

autoParse(text) ==
    IF StrTrim(text) = <<>> THEN Chars(text)
    ELSE LET num == NumberOfText(text) IN IF num.t = "nan" THEN Chars(text) ELSE num

RECURSIVE InsertSorted(_, _)
InsertSorted(x, s) ==
    IF s = <<>> THEN <<x>>
    ELSE IF RLeq(x, Head(s)) THEN <<x>> \o s
         ELSE <<Head(s)>> \o InsertSorted(x, Tail(s))

RECURSIVE SortNums(_)
\* arr.sort((a, b) => a - b)
SortNums(s) == IF s = <<>> THEN <<>> ELSE InsertSorted(Head(s), SortNums(Tail(s)))

mean(arr) ==
    LET nums == FilterSeq(arr, IsFinite)
    IN  IF Len(nums) = 0 THEN Null ELSE RDiv(RSum(nums), IntV(Len(nums)))

median(arr) ==
    LET nums == SortNums(FilterSeq(arr, IsFinite))
        mid == Len(nums) \div 2
    IN  IF Len(nums) = 0 THEN Null
        ELSE IF Len(nums) % 2 = 0
             THEN RDiv(RAdd(nums[mid], nums[mid + 1]), IntV(2))
             ELSE nums[mid + 1]

lower(v) == IF IsNullOrUndef(v) THEN v ELSE Chars(StrLower(ToText(v)))
upper(v) == IF IsNullOrUndef(v) THEN v ELSE Chars(StrUpper(ToText(v)))
trim(v) == IF IsNullOrUndef(v) THEN v ELSE Chars(StrTrim(ToText(v)))
removeNonAlphanum(v) == IF IsNullOrUndef(v) THEN v ELSE Chars(StrKeepAlphanum(ToText(v)))
capitalizeWords(v) == IF IsNullOrUndef(v) THEN v ELSE Chars(StrCapitalize(ToText(v)))

\* Date.prototype.toISOString for a time value in the first second of the
\* epoch (the modelled magnitudes)
IsoText(ms) ==
    CASE 0 <= ms /\ ms < 1000 ->
        <<"1", "9", "7", "0", "-", "0", "1", "-", "0", "1", "T",
          "0", "0", ":", "0", "0", ":", "0", "0", ".">>
        \o <<DigitChars[(ms \div 100) + 1], DigitChars[((ms \div 10) % 10) + 1],
             DigitChars[(ms % 10) + 1], "Z">>

\* What JSON.stringify writes for a value: NaN is written as null, a Date
\* (line 1039) as the string of its toISOString; every other value is written
\* so that different values give different texts
JsonToken(v) ==
    IF v.t = "nan" THEN Null
    ELSE IF v.t = "date" THEN Chars(IsoText(v.ms))
    ELSE v

\* stableKey: JSON.stringify of the row with its keys sorted.  A key whose
\* value is undefined is left out of the text.  The text is represented by
\* the function from the written keys to their tokens: two rows give the
\* same text exactly when they give the same function.
stableKey(row) ==
    [k \in {k \in DOMAIN row : row[k].t # "undef"} |-> JsonToken(row[k])]

-----------------------------------------------------------------------------
(* The preview: a fold of the queue over the baseline rows                 *)
(*                                                                         *)
(* A PreviewRow maps column names to cells [value, isChanged].  The fold   *)
(* state is [rows, cache, origin]: rows is `processed`, cache is           *)
(* `numericCache` (defined on the columns cached so far), and origin[i] is *)
(* the index in the baseline of the row that rows[i] was wrapped from      *)
(* (bookkeeping the properties use; the code does not keep it).            *)

Cell(v, c) == [value |-> v, isChanged |-> c]

\* whether the payload carries field f
HasField(a, f) == f \in DOMAIN a.payload

\* r[col]?.value
CellValue(r, col) == IF col \in DOMAIN r THEN r[col].value ELSE Undef

\* lines 1300-1306
WrapRows(data) == [i \in 1..Len(data) |-> [k \in DOMAIN data[i] |-> Cell(data[i][k], FALSE)]]

\* lines 1300-1316: the fold state before the first action
InitialFold(ds) ==
    [rows |-> WrapRows(ds.data),
     cache |-> <<>>,
     origin |-> [i \in 1..Len(ds.data) |-> i]]

\* the row with r[key] replaced (or added)
WithCell(r, key, cell) == [k \in DOMAIN r \cup {key} |-> IF k = key THEN cell ELSE r[k]]

\* a setCell whose flag tells only whether the last write changed the value
setCellLastWrite(r, key, nextVal) ==
    WithCell(r, key, Cell(nextVal, ~StrictEq(CellValue(r, key), nextVal)))

setCell(r, key, nextVal) ==
    LET prev == CellValue(r, key)
        changed == ~StrictEq(prev, nextVal)
        was == IF key \in DOMAIN r THEN r[key].isChanged ELSE FALSE
    IN  WithCell(r, key, Cell(nextVal, was \/ changed))

RowValues(r) == [k \in DOMAIN r |-> r[k].value]

\* the mask of the rows whose key is not among the keys of the rows after them
LastOccurrence(rows) ==
    [i \in 1..Len(rows) |->
        \A j \in (i + 1)..Len(rows) :
            stableKey(RowValues(rows[j])) # stableKey(RowValues(rows[i]))]

\* the mask of the rows whose key differs from the key of the row just before them
DiffersFromPrevious(rows) ==
    [i \in 1..Len(rows) |->
        i = 1 \/ stableKey(RowValues(rows[i - 1])) # stableKey(RowValues(rows[i]))]

\* lines 1328-1340: the mask of the rows whose key is not among the keys of
\* the rows before them
FirstOccurrence(rows) ==
    [i \in 1..Len(rows) |->
        \A j \in 1..(i - 1) : stableKey(RowValues(rows[j])) # stableKey(RowValues(rows[i]))]

RemoveDuplicates(st) ==
    LET mask == FirstOccurrence(st.rows)
    IN  [st EXCEPT !.rows = SelectByMask(st.rows, mask),
                   !.origin = SelectByMask(st.origin, mask)]

\* lines 1318-1323
ensureNumericCache(st, col) ==
    IF col \in DOMAIN st.cache THEN st.cache
    ELSE [c \in DOMAIN st.cache \cup {col} |->
            IF c = col THEN [i \in 1..Len(st.rows) |-> parseNumberLike(CellValue(st.rows[i], col))]
            ELSE st.cache[c]]

\* a fill that writes the replacement into every cell of the column
FillMissingEveryCell(st, a) ==
    LET col == a.payload.columnName
        Fill(row) == IF col \notin DOMAIN row THEN row ELSE setCell(row, col, IntV(0))
    IN  [st EXCEPT !.rows = MapSeq(st.rows, Fill)]

\* lines 1342-1370
FillMissing(st, a) ==
    LET col == a.payload.columnName
        strat == IF ~HasField(a, "strategy") THEN "zero" ELSE a.payload.strategy
        usesCache == strat \in {"mean", "median"}
        cache == IF usesCache THEN ensureNumericCache(st, col) ELSE st.cache
        m == IF strat = "mean" THEN mean(cache[col]) ELSE median(cache[col])
        replacement ==
            CASE strat = "custom" ->
                   IF HasField(a, "customValue") THEN a.payload.customValue ELSE Undef
              [] strat = "zero" -> IntV(0)
              [] usesCache -> IF m = Null THEN IntV(0) ELSE m
        Fill(row) ==
            IF col \notin DOMAIN row \/ ~isNullish(row[col].value) THEN row
            ELSE setCell(row, col, replacement)
    IN  [st EXCEPT !.rows = MapSeq(st.rows, Fill), !.cache = cache]

BooleanTexts == {<<"t", "r", "u", "e">>, <<"1">>, <<"y", "e", "s">>, <<"y">>}

\* lines 1372-1402
ChangeType(st, a) ==
    LET col == a.payload.columnName
        t == a.payload.newType
        Convert(v) ==
            LET n == parseNumberLike(v)
            IN  CASE t = "Integer" -> IF IsFinite(n) THEN IntV(RTrunc(n)) ELSE Null
                  [] t = "Float" -> IF IsFinite(n) THEN n ELSE Null
                  [] t = "Text" -> IF IsNullOrUndef(v) THEN Chars(<<>>) ELSE Chars(ToText(v))
                  [] t = "Boolean" -> Bool(StrLower(ToText(v)) \in BooleanTexts)
                  [] t = "Date" -> toDateOrNull(v)
        Change(row) ==
            IF col \notin DOMAIN row THEN row
            ELSE setCell(row, col, Convert(row[col].value))
    IN  [st EXCEPT !.rows = MapSeq(st.rows, Change)]

\* lines 1404-1415
DropColumn(st, a) ==
    LET col == a.payload.columnName
        Drop(row) == IF col \in DOMAIN row THEN WithCell(row, col, Cell(Undef, TRUE)) ELSE row
    IN  [st EXCEPT !.rows = MapSeq(st.rows, Drop)]

\* a text transform that writes every cell it reads and marks it changed
TextTransformMarkingAll(st, a) ==
    LET col == a.payload.columnName
        F(v) == CASE a.type = "TRIM_WHITESPACE" -> trim(v)
                  [] a.type = "LOWERCASE" -> lower(v)
                  [] a.type = "UPPERCASE" -> upper(v)
                  [] a.type = "REMOVE_NON_ALPHANUM" -> removeNonAlphanum(v)
                  [] a.type = "CAPITALIZE_WORDS" -> capitalizeWords(v)
        Apply(row) ==
            IF col \notin DOMAIN row THEN row
            ELSE WithCell(row, col, Cell(F(row[col].value), TRUE))
    IN  [st EXCEPT !.rows = MapSeq(st.rows, Apply)]

\* lines 1417-1485: the five text transforms share one shape
TextTransform(st, a) ==
    LET col == a.payload.columnName
        F(v) == CASE a.type = "TRIM_WHITESPACE" -> trim(v)
                  [] a.type = "LOWERCASE" -> lower(v)
                  [] a.type = "UPPERCASE" -> upper(v)
                  [] a.type = "REMOVE_NON_ALPHANUM" -> removeNonAlphanum(v)
                  [] a.type = "CAPITALIZE_WORDS" -> capitalizeWords(v)
        Apply(row) ==
            LET v == CellValue(row, col)
            IN  IF IsNullOrUndef(v) THEN row
                ELSE IF StrictEq(F(v), v) THEN row
                     ELSE setCell(row, col, F(v))
    IN  [st EXCEPT !.rows = MapSeq(st.rows, Apply)]

\* a replace that takes an empty find-text to match the whole text
ReplaceSubstringEmptyFindMatchesAll(st, a) ==
    LET col == a.payload.columnName
        find == a.payload.find
        replaceWith == a.payload.replaceWith
        Apply(row) ==
            LET v == CellValue(row, col)
            IN  IF IsNullOrUndef(v) THEN row
                ELSE LET nv == IF find = <<>> THEN Chars(replaceWith)
                               ELSE Chars(StrReplaceAll(ToText(v), find, replaceWith))
                     IN  IF StrictEq(nv, v) THEN row ELSE setCell(row, col, nv)
    IN  [st EXCEPT !.rows = MapSeq(st.rows, Apply)]

\* lines 1487-1501
ReplaceSubstring(st, a) ==
    LET col == a.payload.columnName
        find == a.payload.find
        replaceWith == a.payload.replaceWith
        Apply(row) ==
            LET v == CellValue(row, col)
            IN  IF IsNullOrUndef(v) \/ find = <<>> THEN row
                ELSE LET nv == Chars(StrReplaceAll(ToText(v), find, replaceWith))
                     IN  IF StrictEq(nv, v) THEN row ELSE setCell(row, col, nv)
    IN  [st EXCEPT !.rows = MapSeq(st.rows, Apply)]

\* lines 1528-1542 (roundTo is a natural number)
NumberRound(st, a) ==
    LET col == a.payload.columnName
        places == IF ~HasField(a, "roundTo") THEN 0 ELSE a.payload.roundTo
        factor == IntV(Pow10(places))
        Apply(row) ==
            LET v == parseNumberLike(CellValue(row, col))
            IN  IF ~IsFinite(v) THEN row
                ELSE setCell(row, col, RDiv(IntV(RRound(RMul(v, factor))), factor))
    IN  [st EXCEPT !.rows = MapSeq(st.rows, Apply)]

RECURSIVE RMin(_)
RMin(s) == IF Len(s) = 1 THEN s[1]
           ELSE LET m == RMin(Tail(s)) IN IF RLess(Head(s), m) THEN Head(s) ELSE m

RECURSIVE RMax(_)
RMax(s) == IF Len(s) = 1 THEN s[1]
           ELSE LET m == RMax(Tail(s)) IN IF RLess(m, Head(s)) THEN Head(s) ELSE m

\* lines 1544-1566
NumberScale(st, a) ==
    LET col == a.payload.columnName
        nums == [i \in 1..Len(st.rows) |-> parseNumberLike(CellValue(st.rows[i], col))]
        finite == FilterSeq(nums, IsFinite)
        min == RMin(finite)
        max == RMax(finite)
        outMin == IF ~HasField(a, "scaleMin") THEN IntV(0) ELSE a.payload.scaleMin
        outMax == IF ~HasField(a, "scaleMax") THEN IntV(1) ELSE a.payload.scaleMax
        Apply(row) ==
            LET v == parseNumberLike(CellValue(row, col))
                t == IF max = min THEN IntV(0) ELSE RDiv(RSub(v, min), RSub(max, min))
            IN  IF ~IsFinite(v) THEN row
                ELSE setCell(row, col, RAdd(outMin, RMul(t, RSub(outMax, outMin))))
    IN  IF Len(finite) = 0 THEN st ELSE [st EXCEPT !.rows = MapSeq(st.rows, Apply)]

TextTransformTypes ==
    {"TRIM_WHITESPACE", "LOWERCASE", "UPPERCASE", "REMOVE_NON_ALPHANUM", "CAPITALIZE_WORDS"}

\* lines 1326-1571: one iteration of the loop over the queue
ApplyAction(st, a) ==
    CASE a.type = "REMOVE_DUPLICATES" -> RemoveDuplicates(st)
      [] a.type = "FILL_MISSING" -> FillMissing(st, a)
      [] a.type = "CHANGE_TYPE" -> ChangeType(st, a)
      [] a.type = "DROP_COLUMN" -> DropColumn(st, a)
      [] a.type \in TextTransformTypes -> TextTransform(st, a)
      [] a.type = "REPLACE_SUBSTRING" -> ReplaceSubstring(st, a)
      [] a.type = "NUMBER_ROUND" -> NumberRound(st, a)
      [] a.type = "NUMBER_SCALE" -> NumberScale(st, a)
      [] OTHER -> st

RECURSIVE FoldActions(_, _)
FoldActions(st, queue) ==
    IF queue = <<>> THEN st ELSE FoldActions(ApplyAction(st, Head(queue)), Tail(queue))

\* lines 1573-1581 (also 1635-1643 and 1674-1680): the row without its
\* undefined cells
Flatten(r) == [k \in {k \in DOMAIN r : r[k].value.t # "undef"} |-> r[k].value]

\* lines 1583-1586
CountMissing(rows) ==
    SeqSum([i \in 1..Len(rows) |->
              Cardinality({k \in DOMAIN Flatten(rows[i]) : isNullish(Flatten(rows[i])[k])})])

\* line 1588
CountDups(rows) ==
    Len(rows) - Cardinality({stableKey(Flatten(rows[i])) : i \in 1..Len(rows)})

\* lines 1573-1590: what the memo returns for a finished fold
FinishPreview(st) ==
    [data |-> st.rows,
     stats |-> [missing |-> CountMissing(st.rows), dups |-> CountDups(st.rows)],
     origin |-> st.origin]

\* lines 1296-1591
Execute(ds, queue) == FinishPreview(FoldActions(InitialFold(ds), queue))


-----------------------------------------------------------------------------
(* The component's state and handlers                                      *)
(*                                                                         *)
(* React keeps `actions` and `dataset` fixed between two renders: a        *)
(* handler reads the values of the render that created it, and a           *)
(* setActions / setDataset call only enqueues an update.  pendActions is   *)
(* <<>> when no update is enqueued and otherwise <<q>>, q being the queue  *)
(* the updates enqueued so far produce when the next render applies them,  *)
(* in order, to `actions`; pendDataset likewise.                           *)

MaxProposals == 2
MaxApplies == 1

Str1(c) == <<c>>

\* the actions the panels of the component can propose (lines 1765-2110),
\* restricted to the two columns of the modelled dataset
Proposal(type, payload) == [type |-> type, payload |-> payload]

ActionMenu ==
    { Proposal("REMOVE_DUPLICATES", <<>>),
      Proposal("FILL_MISSING", [columnName |-> "age", strategy |-> "mean"]),
      Proposal("FILL_MISSING", [columnName |-> "age", strategy |-> "zero"]),
      Proposal("FILL_MISSING", [columnName |-> "name", strategy |-> "zero"]),
      Proposal("DROP_COLUMN", [columnName |-> "age"]),
      Proposal("REPLACE_SUBSTRING",
               [columnName |-> "name", find |-> Str1("a"), replaceWith |-> Str1("b")]),
      Proposal("REPLACE_SUBSTRING",
               [columnName |-> "name", find |-> Str1("a"), replaceWith |-> <<>>]),
      Proposal("REPLACE_SUBSTRING",
               [columnName |-> "name", find |-> Str1("b"), replaceWith |-> Str1("b")]),
      Proposal("REPLACE_SUBSTRING",
               [columnName |-> "name", find |-> Str1("b"), replaceWith |-> <<>>]) }

Row2(age, name) == [age |-> age, name |-> name]

BaseDataset ==
    [columns |-> <<"age", "name">>,
     data |-> << Row2(IntV(10), Chars(Str1("a"))),
                 Row2(Null, Chars(Str1("b"))),
                 Row2(IntV(10), Chars(Str1("a"))) >>]

NoToast == [kind |-> "none"]

\* line 1620: toast.error(`A similar "..." step already exists.`)
SimilarStepToast == [kind |-> "error", message |-> "similar step exists"]

\* line 1933: toast.error("'Find' text cannot be empty.")
EmptyFindToast == [kind |-> "error", message |-> "find is empty"]

\* the queue the enqueued updates produce (React applies them to `actions`)
Pending == IF pendActions = <<>> THEN actions ELSE pendActions[1]

Ids(queue) == {queue[i].id : i \in 1..Len(queue)}

\* !action.payload.columnName
NoColumn(a) == ~HasField(a, "columnName")

\* a redundancy check that compares the kinds only
isRedundantByKind(queue, action) ==
    \E i \in 1..Len(queue) : queue[i].type = action.type

\* lines 1602-1617: actions.some(a => ...)
isRedundant(queue, action) ==
    \E i \in 1..Len(queue) :
        LET a == queue[i]
        IN  IF a.type # action.type THEN FALSE
            ELSE IF NoColumn(action) THEN a.type = "REMOVE_DUPLICATES"
            ELSE IF action.type = "REPLACE_SUBSTRING"
                 THEN /\ a.payload.columnName = action.payload.columnName
                      /\ a.payload.find = action.payload.find
                 ELSE a.payload.columnName = action.payload.columnName

\* lines 1600-1630
handleAddAction(action) ==
    IF isRedundant(actions, action)
    THEN /\ toast' = SimilarStepToast
         /\ UNCHANGED <<dataset, actions, preview, pendActions, pendDataset, applies,
                        nextId, processed, pc, profVars, svcVars>>
    ELSE /\ nextId < MaxProposals
         \* line 1626: `${Date.now()}-${Math.random()}`, an id no other action carries
         /\ pendActions' =
              <<Append(Pending, [id |-> nextId, type |-> action.type,
                                 payload |-> action.payload])>>
         /\ nextId' = nextId + 1
         /\ toast' = [kind |-> "success"]
         /\ UNCHANGED <<dataset, actions, preview, pendDataset, applies, processed, pc, profVars, svcVars>>

\* lines 1765-2110: a panel button whose handler only calls handleAddAction
ProposeButton(action) ==
    /\ action.type # "REPLACE_SUBSTRING"
    /\ handleAddAction(action)
    /\ UNCHANGED <<replaceInputs, pendInputs>>

\* replaceInputs[name] before anything was typed: undefined
NoInputs == [find |-> Undef, replaceWith |-> Undef]

\* the inputs the enqueued updates produce (the updates are functional)
PendingInputs == IF pendInputs = <<>> THEN replaceInputs ELSE pendInputs[1]

\* the texts typed into the two inputs of the replace panel
FindTexts == {Str1("a"), Str1("b")}
ReplaceWithTexts == {Str1("b")}

\* line 1926: onChange of the Find input
TypeFind(text) ==
    LET s == PendingInputs
    IN  /\ Chars(text) # s.find
        /\ pendInputs' = <<[find |-> Chars(text),
                            replaceWith |-> IF s = NoInputs THEN Chars(<<>>)
                                            ELSE s.replaceWith]>>
        /\ toast' = NoToast
        /\ UNCHANGED <<dataset, actions, preview, pendActions, pendDataset, applies, nextId,
                       processed, pc, replaceInputs, profVars, svcVars>>

\* line 1927: onChange of the Replace input
TypeReplaceWith(text) ==
    LET s == PendingInputs
    IN  /\ Chars(text) # s.replaceWith
        /\ pendInputs' = <<[find |-> IF s = NoInputs THEN Chars(<<>>) ELSE s.find,
                            replaceWith |-> Chars(text)]>>
        /\ toast' = NoToast
        /\ UNCHANGED <<dataset, actions, preview, pendActions, pendDataset, applies, nextId,
                       processed, pc, replaceInputs, profVars, svcVars>>

\* a Replace button that reports the empty find-text and enqueues the action
\* all the same
ReplaceButtonEnqueuingEmptyFind ==
    LET find == replaceInputs.find
        replaceWith == replaceInputs.replaceWith
    IN  IF find \in {Undef, Chars(<<>>)}
        THEN /\ toast' = EmptyFindToast
             /\ nextId < MaxProposals
             /\ pendActions' =
                  <<Append(Pending, [id |-> nextId, type |-> "REPLACE_SUBSTRING",
                                     payload |-> [columnName |-> "name", find |-> <<>>,
                                                  replaceWith |-> <<>>]])>>
             /\ nextId' = nextId + 1
             /\ UNCHANGED <<dataset, actions, preview, pendDataset, applies,
                            processed, pc, replaceInputs, pendInputs, profVars, svcVars>>
        ELSE /\ handleAddAction(Proposal("REPLACE_SUBSTRING",
                                         [columnName |-> "name", find |-> find.s,
                                          replaceWith |-> replaceWith.s]))
             /\ pendInputs' = <<[find |-> Chars(<<>>), replaceWith |-> Chars(<<>>)]>>
             /\ UNCHANGED replaceInputs

\* lines 1929-1938: the Replace button of column name
ReplaceButton ==
    LET find == replaceInputs.find
        replaceWith == replaceInputs.replaceWith
    IN  IF find \in {Undef, Chars(<<>>)}
        THEN /\ toast' = EmptyFindToast
             /\ UNCHANGED <<dataset, actions, preview, pendActions, pendDataset, applies,
                            nextId, processed, pc, replaceInputs, pendInputs, profVars, svcVars>>
        ELSE /\ handleAddAction(Proposal("REPLACE_SUBSTRING",
                                         [columnName |-> "name", find |-> find.s,
                                          replaceWith |-> replaceWith.s]))
             /\ pendInputs' = <<[find |-> Chars(<<>>), replaceWith |-> Chars(<<>>)]>>
             /\ UNCHANGED replaceInputs

\* line 1241: the remove button of a rendered step
RemoveStep(id) ==
    /\ id \in Ids(actions)
    /\ pendActions' = <<SelectByMask(actions, [i \in 1..Len(actions) |-> actions[i].id # id])>>
    /\ toast' = NoToast
    /\ UNCHANGED <<dataset, actions, preview, pendDataset, applies, nextId, processed, pc,
                   replaceInputs, pendInputs, profVars, svcVars>>

Orders(n) == {f \in [1..n -> 1..n] : \A i, j \in 1..n : f[i] = f[j] => i = j}

\* line 1221: onReorder={setActions} receives the rendered steps in a new order
Reorder(f) ==
    /\ f # [i \in 1..Len(actions) |-> i]
    /\ pendActions' = <<[i \in 1..Len(actions) |-> actions[f[i]]]>>
    /\ toast' = NoToast
    /\ UNCHANGED <<dataset, actions, preview, pendDataset, applies, nextId, processed, pc,
                   replaceInputs, pendInputs, profVars, svcVars>>

\* lines 1645-1654 (and 1682-1690): the columns no DROP_COLUMN action names
KeptColumns(ds, queue) ==
    LET dropped == {queue[i].payload.columnName :
                      i \in {j \in 1..Len(queue) : queue[j].type = "DROP_COLUMN"}}
        Kept(c) == c \notin dropped
    IN  FilterSeq(ds.columns, Kept)

\* lines 1635-1656: the dataset handed to setDataset
AppliedDataset(ds, pv, queue) ==
    [columns |-> KeptColumns(ds, queue),
     data |-> [i \in 1..Len(pv.data) |-> Flatten(pv.data[i])]]

\* a reset that also writes the previewed rows back as the dataset
handleResetWritingBack ==
    /\ pendActions' = << <<>> >>
    /\ pendDataset' = <<AppliedDataset(dataset, preview, actions)>>
    /\ toast' = [kind |-> "success"]
    /\ UNCHANGED <<dataset, actions, preview, applies, nextId, processed, pc,
                   replaceInputs, pendInputs, profVars, svcVars>>

\* lines 1662-1665
handleReset ==
    /\ pendActions' = << <<>> >>
    /\ toast' = [kind |-> "success"]
    /\ UNCHANGED <<dataset, actions, preview, pendDataset, applies, nextId, processed, pc,
                   replaceInputs, pendInputs, profVars, svcVars>>

\* lines 1632-1660
handleApplyChanges ==
    /\ applies < MaxApplies
    /\ applies' = applies + 1
    /\ pendDataset' = <<AppliedDataset(dataset, preview, actions)>>
    /\ pendActions' = << <<>> >>
    /\ toast' = [kind |-> "success"]
    /\ UNCHANGED <<dataset, actions, preview, nextId, processed, pc, replaceInputs, pendInputs,
                   profVars, svcVars>>

\* a memo that keeps the rows of the previous preview and runs only the last
\* action of the queue over them
IncrementalPreview(prev, ds, queue) ==
    IF queue = <<>> THEN Execute(ds, queue)
    ELSE FinishPreview(ApplyAction([rows |-> prev.data, cache |-> <<>>, origin |-> prev.origin],
                                   queue[Len(queue)]))

\* lines 1296-1591: useMemo(..., [originalDataset, actions]) recomputes the
\* preview from the values of the render
RecomputePreview(prev, ds, queue) == Execute(ds, queue)

\* the render that follows enqueued updates: both states take their pending
\* values in one commit, and the memo is recomputed
Render ==
    /\ pendActions # <<>> \/ pendDataset # <<>> \/ pendInputs # <<>>
    /\ actions' = Pending
    /\ dataset' = IF pendDataset = <<>> THEN dataset ELSE pendDataset[1]
    /\ preview' = RecomputePreview(preview, dataset', actions')
    /\ pendActions' = <<>>
    /\ pendDataset' = <<>>
    /\ replaceInputs' = PendingInputs
    /\ pendInputs' = <<>>
    /\ toast' = NoToast
    /\ UNCHANGED <<applies, nextId, processed, pc, profVars, svcVars>>

Idle == [rows |-> <<>>, cache |-> <<>>, origin |-> <<>>]

\* no profiling function has been handed any rows
ProfilerIdle ==
    /\ table = <<>>
    /\ dateLenient = FALSE
    /\ columnInfo = <<>>
    /\ inferred = <<>>
    /\ correlations = <<>>
    /\ insightPairs = <<>>

\* no statistics helper has been called
StatsIdle ==
    /\ numbers = <<>>
    /\ thresh = IntV(0)
    /\ outliers = <<>>

\* no request has reached the rate limiter
LimiterIdle ==
    /\ limits = [perMinute |-> 0, perDay |-> 0]
    /\ store = <<>>
    /\ served = <<>>

\* gemini.ts line 33: `model` is null until a model is obtained
NoModel == "null"

\* the question-answering module as loaded without an API key, never called
QAIdle ==
    /\ isGeminiConfigured = FALSE
    /\ gemModel = NoModel
    /\ localModel = NoModel
    /\ breaker = [failures |-> <<>>, openUntil |-> 0]
    /\ inflight = {}
    /\ settled = <<>>
    /\ calls = 0
    /\ failedSince = <<>>
    /\ openedAt = <<>>

\* sanitizeSample has not been called
SanitizeIdle ==
    /\ sample = [columns |-> <<>>, rows |-> <<>>]
    /\ sanitized = <<>>

ServiceIdle == StatsIdle /\ now = 0 /\ LimiterIdle /\ QAIdle /\ SanitizeIdle

Init ==
    /\ dataset = BaseDataset
    /\ actions = <<>>
    /\ preview = Execute(BaseDataset, <<>>)
    /\ pendActions = <<>>
    /\ pendDataset = <<>>
    /\ toast = NoToast
    /\ applies = 0
    /\ nextId = 0
    /\ processed = Idle
    /\ pc = 0
    /\ replaceInputs = NoInputs
    /\ pendInputs = <<>>
    /\ ProfilerIdle
    /\ ServiceIdle

Next ==
    \/ \E action \in ActionMenu : ProposeButton(action)
    \/ \E text \in FindTexts : TypeFind(text)
    \/ \E text \in ReplaceWithTexts : TypeReplaceWith(text)
    \/ ReplaceButton
    \/ \E id \in Ids(actions) : RemoveStep(id)
    \/ \E f \in Orders(Len(actions)) : Reorder(f)
    \/ handleReset
    \/ handleApplyChanges
    \/ Render

Spec == Init /\ [][Next]_vars


-----------------------------------------------------------------------------
(* One evaluation of the preview memo, action by action                    *)
(*                                                                         *)
(* The memo runs its loop over the rendered queue without interruption;    *)
(* here the loop is unrolled into steps so that the rows before and after  *)
(* each action are states.  pc counts the actions already run and is       *)
(* Len(actions) + 1 once the memo has returned.                            *)

MaxQueueLen == 2

\* the actions of the evaluated queues
ExecMenu ==
    { Proposal("REMOVE_DUPLICATES", <<>>),
      Proposal("FILL_MISSING", [columnName |-> "age", strategy |-> "mean"]),
      Proposal("FILL_MISSING", [columnName |-> "age", strategy |-> "median"]),
      Proposal("FILL_MISSING", [columnName |-> "age", strategy |-> "zero"]),
      Proposal("FILL_MISSING", [columnName |-> "name", strategy |-> "custom",
                                customValue |-> Chars(Str1("x"))]),
      Proposal("DROP_COLUMN", [columnName |-> "age"]),
      Proposal("CHANGE_TYPE", [columnName |-> "age", newType |-> "Text"]),
      Proposal("CHANGE_TYPE", [columnName |-> "age", newType |-> "Integer"]),
      Proposal("CHANGE_TYPE", [columnName |-> "age", newType |-> "Float"]),
      Proposal("CHANGE_TYPE", [columnName |-> "age", newType |-> "Date"]),
      Proposal("UPPERCASE", [columnName |-> "name"]),
      Proposal("LOWERCASE", [columnName |-> "name"]),
      Proposal("TRIM_WHITESPACE", [columnName |-> "name"]),
      Proposal("REMOVE_NON_ALPHANUM", [columnName |-> "name"]),
      Proposal("CAPITALIZE_WORDS", [columnName |-> "name"]),
      Proposal("REPLACE_SUBSTRING",
               [columnName |-> "name", find |-> Str1("a"), replaceWith |-> Str1("b")]),
      Proposal("REPLACE_SUBSTRING",
               [columnName |-> "name", find |-> <<>>, replaceWith |-> Str1("b")]),
      Proposal("NUMBER_ROUND", [columnName |-> "age", roundTo |-> 0]),
      Proposal("NUMBER_ROUND", [columnName |-> "name", roundTo |-> 0]),
      Proposal("NUMBER_SCALE", [columnName |-> "age"]),
      Proposal("NUMBER_SCALE", [columnName |-> "age", scaleMin |-> IntV(1), scaleMax |-> IntV(3)]) }

Table3(a1, n1, a2, n2, a3, n3) ==
    [columns |-> <<"age", "name">>,
     data |-> <<Row2(a1, Chars(Str1(n1))), Row2(a2, Chars(Str1(n2))), Row2(a3, Chars(Str1(n3)))>>]

RowXY(x, y) == [x |-> IntV(x), y |-> IntV(y)]

\* the rows [{x:1,y:2},{x:1,y:2},{x:3,y:4}]
DatasetXY ==
    [columns |-> <<"x", "y">>, data |-> <<RowXY(1, 2), RowXY(1, 2), RowXY(3, 4)>>]

\* age = [10, null, 30]
DatasetAgeNull == Table3(IntV(10), "a", Null, "b", IntV(30), "a")

\* age = [10, "", 30]
DatasetAgeEmpty == Table3(IntV(10), "A", Chars(<<>>), "b", IntV(30), "a")

\* rows 1 and 3 differ only in the case of the name
DatasetCase == Table3(IntV(10), "A", Null, "b", IntV(10), "a")

\* age = [1.5, "-", null]: a fraction and a text that is neither a number nor
\* a date
DatasetAgeDash == Table3(Num(3, 2), "a", Chars(Str1("-")), "b", Null, "a")

\* age = [0, 5, 10]
DatasetZeroFiveTen == Table3(IntV(0), "a", IntV(5), "b", IntV(10), "c")

\* name = [" b", null, "a-"]: a padded text, a missing cell and a trimmed
\* lowercase text with a punctuation mark
DatasetNames ==
    [columns |-> <<"age", "name">>,
     data |-> << Row2(IntV(1), Chars(<<" ", "b">>)),
                 Row2(IntV(2), Null),
                 Row2(IntV(3), Chars(<<"a", "-">>)) >>]

ExecDatasets ==
    {BaseDataset, DatasetXY, DatasetAgeNull, DatasetAgeEmpty, DatasetCase, DatasetAgeDash,
     DatasetZeroFiveTen, DatasetNames}

\* the queue with the ids of its positions
WithIds(q) ==
    [i \in 1..Len(q) |-> [id |-> i - 1, type |-> q[i].type, payload |-> q[i].payload]]

\* the queues handleAddAction builds when a render follows every proposal:
\* no action is redundant with the actions before it
ExecQueues ==
    LET Seqs == UNION {[1..n -> ExecMenu] : n \in 0..MaxQueueLen}
    IN  {WithIds(q) : q \in {s \in Seqs :
            \A i \in 1..Len(s) : ~isRedundant(SubSeq(s, 1, i - 1), s[i])}}

\* line 1297: the value of the memo before any dataset is evaluated
EmptyPreview == [data |-> <<>>, stats |-> [missing |-> 0, dups |-> 0], origin |-> <<>>]

\* the cleaning page before any file is loaded and any step proposed
QueueIdle ==
    /\ dataset = BaseDataset
    /\ actions = <<>>
    /\ preview = EmptyPreview
    /\ pendActions = <<>>
    /\ pendDataset = <<>>
    /\ toast = NoToast
    /\ applies = 0
    /\ nextId = 0
    /\ processed = Idle
    /\ pc = 0
    /\ replaceInputs = NoInputs
    /\ pendInputs = <<>>

\* lines 1682-1692: the columns exportCSV writes as the header
finalColumns(ds, queue) ==
    LET droppedColumns ==
            {queue[i].payload.columnName :
               i \in {j \in 1..Len(queue) :
                        queue[j].type = "DROP_COLUMN" /\ HasField(queue[j], "columnName")}}
        Kept(c) == c \notin droppedColumns
    IN  FilterSeq(ds.columns, Kept)

\* lines 1738-1740
previewColumns(ds, pv) ==
    LET Shown(name) ==
            /\ Len(pv.data) > 0
            /\ name \in DOMAIN pv.data[1]
            /\ pv.data[1][name].value.t # "undef"
    IN  FilterSeq(ds.columns, Shown)

InitExec ==
    /\ dataset \in ExecDatasets
    /\ actions \in ExecQueues
    /\ processed = InitialFold(dataset)
    /\ pc = 0
    /\ preview = EmptyPreview
    /\ pendActions = <<>>
    /\ pendDataset = <<>>
    /\ toast = NoToast
    /\ applies = 0
    /\ nextId = 0
    /\ replaceInputs = NoInputs
    /\ pendInputs = <<>>
    /\ ProfilerIdle
    /\ ServiceIdle

\* lines 1326-1571: one iteration of the loop
ExecStep ==
    /\ pc < Len(actions)
    /\ processed' = ApplyAction(processed, actions[pc + 1])
    /\ pc' = pc + 1
    /\ UNCHANGED <<dataset, actions, preview, pendActions, pendDataset, toast, applies, nextId,
                   replaceInputs, pendInputs, profVars, svcVars>>

\* lines 1573-1590: the memo returns
ExecFinish ==
    /\ pc = Len(actions)
    /\ preview' = FinishPreview(processed)
    /\ pc' = pc + 1
    /\ UNCHANGED <<dataset, actions, processed, pendActions, pendDataset, toast, applies,
                   nextId, replaceInputs, pendInputs, profVars, svcVars>>

NextExec == ExecStep \/ ExecFinish

SpecExec == InitExec /\ [][NextExec]_vars


-----------------------------------------------------------------------------
(* Column profiling: type inference and correlation                        *)
(*                                                                         *)
(* The profiling functions are pure: each action hands the rows of `table` *)
(* to one of them and keeps what it returns.  Numbers are exact rationals; *)
(* the quotients compared with 0.8 and 0.2 are exact, as the double        *)
(* quotient of two small integers is the double nearest to the exact       *)
(* fraction and so compares with the literal as the fraction does.         *)

\* debug-qa.js lines 27-31, Analytics.tsx line 72, AIInsights.tsx lines 99-103
isMissing(v) == v.t \in {"null", "undef", "nan"} \/ v = Chars(<<>>)

\* debug-qa.js line 33, Analytics.tsx line 71, AIInsights.tsx line 104
isFiniteNumber(v) == v.t = "num"

\* Number(v): ToNumber of a primitive
NumberOf(v) ==
    CASE v.t \in {"num", "nan"} -> v
      [] v.t = "null" -> IntV(0)
      [] v.t = "undef" -> NaN
      [] v.t = "bool" -> IntV(IF v.b THEN 1 ELSE 0)
      [] v.t = "str" -> NumberOfText(v.s)

\* debug-qa.js lines 35-38, AIInsights.tsx lines 106-109
toNumber(v) == NumberOf(v)

\* a date in the format YYYY-MM-DD of the Date Time String Format
IsIsoDate(text) ==
    /\ Len(text) = 10
    /\ text[5] = "-" /\ text[8] = "-"
    /\ \A i \in {1, 2, 3, 4, 6, 7, 9, 10} : IsDigit(text[i])
    /\ DigitsVal(SubSeq(text, 6, 7)) \in 1..12
    /\ DigitsVal(SubSeq(text, 9, 10)) \in 1..28

\* whether Date.parse(text) is a time value: a text in the standard format is
\* read, a text without a digit is not, and any other text is read or not as
\* the engine chooses (lenient)
DateParses(text, lenient) ==
    IF IsIsoDate(text) THEN TRUE
    ELSE IF \A i \in 1..Len(text) : ~IsDigit(text[i]) THEN FALSE
    ELSE lenient

\* the cell of a row at a column (undefined when the row has no such key)
Field(row, c) == IF c \in DOMAIN row THEN row[c] ELSE Undef

\* debug-qa.js line 151
MaxCategories == 50

\* the indices of the rows whose value at column c is not missing
\* (.filter(val => !isMissing(val)) keeps these rows' values, in order)
Present(rows, c) == {i \in 1..Len(rows) : ~isMissing(Field(rows[i], c))}

\* debug-qa.js lines 139-153: the type of one column
ColumnType(rows, c, lenient) ==
    LET values == Present(rows, c)
        uniqueValues == {Field(rows[i], c) : i \in values}
        numericValues == {i \in values : isFiniteNumber(toNumber(Field(rows[i], c)))}
        total == Cardinality(values)
        \* 0 / 0 is NaN, which exceeds nothing
        isNumericCandidate ==
            total > 0 /\ RLess(Num(4, 5), Num(Cardinality(numericValues), total))
        fewDistinct ==
            \/ Cardinality(uniqueValues) <= MaxCategories
            \/ total > 0 /\ RLess(Num(Cardinality(uniqueValues), total), Num(1, 5))
    IN  IF isNumericCandidate THEN "numeric"
        ELSE IF fewDistinct THEN "categorical"
        ELSE IF \E i \in values : DateParses(ToText(Field(rows[i], c)), lenient) THEN "date"
        ELSE "text"

\* debug-qa.js lines 134-175: name is the key, type the inferred type (the
\* counts and the numeric summary of a ColumnInfo are left out)
analyzeColumns(data, lenient) ==
    IF Len(data) = 0 THEN <<>>
    ELSE [c \in DOMAIN data[1] |-> ColumnType(data, c, lenient)]

\* Analytics.tsx line 259
SampleSize == 50

\* Analytics.tsx lines 246-274: the list a column is pushed to
SampledType(rows, c, lenient) ==
    LET values == Present(rows, c)
        \* the loop stops once it has checked SampleSize values
        checked == {i \in values : Cardinality({j \in values : j <= i}) <= SampleSize}
        sawNum == \E i \in checked :
                     LET v == Field(rows[i], c)
                     IN  IsFinite(NumberOf(v)) /\ v.t # "bool"
        sawDate == \E i \in checked :
                     LET v == Field(rows[i], c)
                     IN  v.t = "str" /\ DateParses(v.s, lenient)
    IN  IF sawDate THEN "datetime" ELSE IF sawNum THEN "numeric" ELSE "categorical"

\* Analytics.tsx lines 232-279: columns are the keys of the first row
useRowsAndColumns(rows, lenient) ==
    IF Len(rows) = 0 THEN <<>>
    ELSE [c \in DOMAIN rows[1] |-> SampledType(rows, c, lenient)]

\* a coefficient num / sqrt(square): the square root is irrational in general,
\* so the coefficient is held as its sign and its square; a denominator that
\* is 0 (or NaN, for a negative square) gives 0
Coefficient(num, square) ==
    IF ~RLess(IntV(0), square) THEN [sign |-> 0, sq |-> IntV(0)]
    ELSE [sign |-> IF num.n > 0 THEN 1 ELSE IF num.n < 0 THEN -1 ELSE 0,
          sq |-> RDiv(RMul(num, num), square)]

ZeroCoefficient == [sign |-> 0, sq |-> IntV(0)]

\* Analytics.tsx lines 142-163
pearsonBySums(x, y) ==
    LET n == IF Len(x) < Len(y) THEN Len(x) ELSE Len(y)
        ok(i) == isFiniteNumber(x[i]) /\ isFiniteNumber(y[i])
        Sum(F(_)) == RSum([i \in 1..n |-> IF ok(i) THEN F(i) ELSE IntV(0)])
        X(i) == x[i]
        Y(i) == y[i]
        XX(i) == RMul(x[i], x[i])
        YY(i) == RMul(y[i], y[i])
        XY(i) == RMul(x[i], y[i])
        sx == Sum(X)
        sy == Sum(Y)
        sxx == Sum(XX)
        syy == Sum(YY)
        sxy == Sum(XY)
        num == RSub(RMul(IntV(n), sxy), RMul(sx, sy))
        square == RMul(RSub(RMul(IntV(n), sxx), RMul(sx, sx)),
                       RSub(RMul(IntV(n), syy), RMul(sy, sy)))
    IN  IF n < 2 THEN ZeroCoefficient ELSE Coefficient(num, square)

\* Analytics.tsx lines 497-513 for the columns x and y (the list of one pair
\* needs no sorting)
CorrelationsMemo(rows, types) ==
    IF Len(rows) = 0 \/ ~({"x", "y"} \subseteq DOMAIN types) THEN <<>>
    ELSE IF types["x"] # "numeric" \/ types["y"] # "numeric" THEN <<>>
    ELSE
      LET NumberAt(c) == [i \in 1..Len(rows) |-> NumberOf(Field(rows[i], c))]
          xs == FilterSeq(NumberAt("x"), isFiniteNumber)
          ys == FilterSeq(NumberAt("y"), isFiniteNumber)
          n == IF Len(xs) < Len(ys) THEN Len(xs) ELSE Len(ys)
      IN  IF n < 2 THEN <<>>
          ELSE <<[x |-> "x", y |-> "y",
                  corr |-> pearsonBySums(SubSeq(xs, 1, n), SubSeq(ys, 1, n))]>>

\* AIInsights.tsx lines 148-174 (debug-qa.js lines 75-98)
pearson(x, y) ==
    LET n == IF Len(x) < Len(y) THEN Len(x) ELSE Len(y)
        both == [i \in 1..n |-> isFiniteNumber(x[i]) /\ isFiniteNumber(y[i])]
        xs == SelectByMask(SubSeq(x, 1, n), both)
        ys == SelectByMask(SubSeq(y, 1, n), both)
        k == Len(xs)
        mx == RDiv(RSum(xs), IntV(k))
        my == RDiv(RSum(ys), IntV(k))
        num == RSum([i \in 1..k |-> RMul(RSub(xs[i], mx), RSub(ys[i], my))])
        sx == RSum([i \in 1..k |-> RMul(RSub(xs[i], mx), RSub(xs[i], mx))])
        sy == RSum([i \in 1..k |-> RMul(RSub(ys[i], my), RSub(ys[i], my))])
    IN  IF n < 2 \/ k < 2 THEN ZeroCoefficient ELSE Coefficient(num, RMul(sx, sy))

\* AIInsights.tsx lines 231-241: a column is numeric when its first value that
\* is not missing converts to a number (no column types come with the rows)
numericColumns(rows) ==
    IF Len(rows) = 0 THEN {}
    ELSE {c \in DOMAIN rows[1] :
            LET values == Present(rows, c)
                first == CHOOSE i \in values : \A j \in values : i <= j
            IN  values # {} /\ toNumber(Field(rows[first], c)).t # "nan"}

\* AIInsights.tsx lines 402-411 for the columns x and y
InsightPairs(rows) ==
    IF ~({"x", "y"} \subseteq numericColumns(rows)) THEN <<>>
    ELSE LET xArr == [i \in 1..Len(rows) |-> toNumber(Field(rows[i], "x"))]
             yArr == [i \in 1..Len(rows) |-> toNumber(Field(rows[i], "y"))]
         IN  <<[x |-> "x", y |-> "y", corr |-> pearson(xArr, yArr)]>>

\* the rows of a column with nums different numbers, texts texts of which
\* distinct are different, and dates ISO dates
Word(i) == <<LowerChars[(i \div 26) + 1], LowerChars[(i % 26) + 1]>>

GenColumn(nums, texts, distinct, dates) ==
    [i \in 1..(nums + texts + dates) |->
        [x |-> IF i <= nums THEN IntV(i)
               ELSE IF i <= nums + texts THEN Chars(Word((i - nums - 1) % distinct))
               ELSE Chars(<<"2", "0", "2", "0", "-", "0", "1", "-", "0", "1">>)]]

\* one-column tables on and around the thresholds 0.8, 50 and 0.2
ThresholdTables ==
    { GenColumn(0, 5, 4, 0),       \* 5 values, 4 distinct
      GenColumn(5, 0, 1, 0),       \* every value a number
      GenColumn(9, 1, 1, 0),       \* 0.9 of the values are numbers
      GenColumn(4, 1, 1, 0),       \* exactly 0.8 of the values are numbers
      GenColumn(3, 2, 2, 0),       \* 0.6 of the values are numbers
      GenColumn(1, 4, 4, 0),       \* one number among texts
      GenColumn(0, 50, 50, 0),     \* exactly 50 distinct values
      GenColumn(0, 51, 51, 0),     \* 51 distinct texts
      GenColumn(0, 50, 50, 1),     \* 51 distinct values, one of them a date
      GenColumn(0, 255, 51, 0),    \* 51 distinct of 255: ratio exactly 0.2
      GenColumn(0, 256, 51, 0),    \* 51 distinct of 256: ratio below 0.2
      GenColumn(11, 44, 44, 0),    \* 55 distinct, 0.2 of the values are numbers
      GenColumn(2, 0, 1, 1),       \* two numbers and a date
      GenColumn(0, 0, 1, 0) }      \* no rows

\* the values of the short two-column tables
PairValues == {IntV(1), IntV(2), Null, Chars(Str1("a"))}

MaxRows == 3

PairTables ==
    {[i \in 1..MaxRows |-> [x |-> xs[i], y |-> ys[i]]] :
        xs \in [1..MaxRows -> PairValues], ys \in [1..MaxRows -> {IntV(1), IntV(2)}]}

InitProfile ==
    /\ table \in ThresholdTables \cup PairTables
    /\ dateLenient \in BOOLEAN
    /\ columnInfo = <<>>
    /\ inferred = <<>>
    /\ correlations = <<>>
    /\ insightPairs = <<>>
    /\ dataset = BaseDataset
    /\ actions = <<>>
    /\ preview = EmptyPreview
    /\ pendActions = <<>>
    /\ pendDataset = <<>>
    /\ toast = NoToast
    /\ applies = 0
    /\ nextId = 0
    /\ processed = Idle
    /\ pc = 0
    /\ replaceInputs = NoInputs
    /\ pendInputs = <<>>
    /\ ServiceIdle

\* debug-qa.js lines 134-175
AnalyzeColumns ==
    /\ columnInfo = <<>>
    /\ columnInfo' = <<analyzeColumns(table, dateLenient)>>
    /\ UNCHANGED <<uiVars, svcVars, table, dateLenient, inferred, correlations, insightPairs>>

\* Analytics.tsx lines 246-276: the memo of the column types
UseRowsAndColumns ==
    /\ inferred = <<>>
    /\ inferred' = <<useRowsAndColumns(table, dateLenient)>>
    /\ UNCHANGED <<uiVars, svcVars, table, dateLenient, columnInfo, correlations, insightPairs>>

\* Analytics.tsx lines 497-513: the memo that depends on numericCols
Correlations ==
    /\ inferred # <<>>
    /\ correlations = <<>>
    /\ correlations' = <<CorrelationsMemo(table, inferred[1])>>
    /\ UNCHANGED <<uiVars, svcVars, table, dateLenient, columnInfo, inferred, insightPairs>>

\* AIInsights.tsx lines 402-411
BuildInsights ==
    /\ insightPairs = <<>>
    /\ insightPairs' = <<InsightPairs(table)>>
    /\ UNCHANGED <<uiVars, svcVars, table, dateLenient, columnInfo, inferred, correlations>>

NextProfile == AnalyzeColumns \/ UseRowsAndColumns \/ Correlations \/ BuildInsights

SpecProfile == InitProfile /\ [][NextProfile]_vars

-----------------------------------------------------------------------------
(* The statistics helpers: debug-qa.js lines 40-112, repeated in           *)
(* AIInsights.tsx lines 115-187                                            *)

\* debug-qa.js `mean` (lines 40-44): 0 for an empty array; the numbers are rationals
arrayMean(a) == IF Len(a) = 0 THEN IntV(0) ELSE RDiv(RSum(a), IntV(Len(a)))

RSquare(x) == RMul(x, x)

\* lines 54-59: the value `v` whose square root stdDev returns (0 below two numbers)
stdDevSquared(a) ==
    IF Len(a) < 2 THEN IntV(0)
    ELSE LET m == arrayMean(a)
         IN  RDiv(RSum([i \in 1..Len(a) |-> RSquare(RSub(a[i], m))]), IntV(Len(a) - 1))

\* the indices, ascending, of a set of array indices
RECURSIVE Ascending(_)
Ascending(S) ==
    IF S = {} THEN <<>>
    ELSE LET lo == CHOOSE i \in S : \A j \in S : i <= j
         IN  <<lo>> \o Ascending(S \ {lo})

\* line 109: Math.abs((x - m) / s) > thresh, with s the positive root of v:
\* every |z| exceeds a negative threshold, otherwise compare the squares
ZExceeds(x, m, v, th) ==
    \/ th.n < 0
    \/ RLess(RMul(RSquare(th), v), RSquare(RSub(x, m)))

\* the same loop comparing the distance from the mean itself with the threshold
zScoreOutliersUnscaled(a, th) ==
    IF Len(a) < 2 THEN <<>>
    ELSE LET m == arrayMean(a)
             v == stdDevSquared(a)
         IN  IF v.n = 0 THEN <<>>
             ELSE Ascending({i - 1 : i \in {k \in 1..Len(a) : ZExceeds(a[k], m, IntV(1), th)}})

\* lines 101-112; the indices count from 0 as in the source
zScoreOutliers(a, th) ==
    IF Len(a) < 2 THEN <<>>
    ELSE LET m == arrayMean(a)
             v == stdDevSquared(a)
         IN  IF v.n = 0 THEN <<>>
             ELSE Ascending({i - 1 : i \in {k \in 1..Len(a) : ZExceeds(a[k], m, v, th)}})

MaxArrayLen == 3

\* the array of the example, the arrays of up to MaxArrayLen of three of its numbers
TenToThousand == <<IntV(10), IntV(12), IntV(11), IntV(13), IntV(1000)>>
NumberArrays ==
    {TenToThousand}
    \cup UNION {[1..n -> {IntV(10), IntV(12), IntV(1000)}] : n \in 0..MaxArrayLen}

\* 2.5 is the default of line 101 and the argument of AIInsights.tsx line 372
DefaultThresh == Num(5, 2)
Thresholds == {DefaultThresh, IntV(1), Num(1, 2)}

InitStats ==
    /\ numbers \in NumberArrays
    /\ thresh \in Thresholds
    /\ outliers = <<>>
    /\ QueueIdle
    /\ ProfilerIdle
    /\ now = 0
    /\ LimiterIdle
    /\ QAIdle
    /\ SanitizeIdle

ZScoreOutliers ==
    /\ outliers = <<>>
    /\ outliers' = <<zScoreOutliers(numbers, thresh)>>
    /\ UNCHANGED <<uiVars, profVars, numbers, thresh, now, limiterVars, qaVars, sanitizeVars>>

NextStats == ZScoreOutliers

SpecStats == InitStats /\ [][NextStats]_vars

-----------------------------------------------------------------------------
(* The rate limiter of POST /api/ai-insights/search: part_006, part_008    *)

MinuteMs == 60000
DayMs == 24 * 60 * 60000

\* a request without a verified token carries no req.user (part_008 lines 57-80)
NoUser == [uid |-> <<>>]
Callers == {NoUser, [uid |-> <<"u", "1">>], [uid |-> <<"u", "2">>]}

\* part_006 line 13 and getKey (lines 5-7): `u:${uid || 'anon'}`
getKey(user) ==
    <<"u", ":">> \o (IF user.uid = <<>> THEN <<"a", "n", "o", "n">> ELSE user.uid)

Keys == {getKey(user) : user \in Callers}

\* lines 15-17: the windows of an instant
minuteWindow(t) == t \div MinuteMs
dayWindow(t) == t \div DayMs

\* line 18: store.get(key) || a fresh entry
StoredOrFresh(st, key, t) ==
    IF st[key] # <<>> THEN st[key][1]
    ELSE [minute |-> [window |-> minuteWindow(t), count |-> 0],
          day |-> [window |-> dayWindow(t), count |-> 0]]

\* lines 19-22: the entry after this request is counted
Counted(cur, t) ==
    LET m == IF cur.minute.window # minuteWindow(t)
             THEN [window |-> minuteWindow(t), count |-> 0] ELSE cur.minute
        d == IF cur.day.window # dayWindow(t)
             THEN [window |-> dayWindow(t), count |-> 0] ELSE cur.day
    IN  [minute |-> [m EXCEPT !.count = @ + 1], day |-> [d EXCEPT !.count = @ + 1]]

\* the same middleware testing the count of the minute only
rateLimiterMinuteOnly(st, lim, user, t) ==
    LET key == getKey(user)
        cur == Counted(StoredOrFresh(st, key, t), t)
    IN  [store |-> [st EXCEPT ![key] = <<cur>>],
         outcome |-> IF cur.minute.count > lim.perMinute THEN "429" ELSE "next"]

\* lines 12-35: the middleware; outcome "429" answers the request, "next" hands it on
rateLimiter(st, lim, user, t) ==
    LET key == getKey(user)
        cur == Counted(StoredOrFresh(st, key, t), t)
    IN  [store |-> [st EXCEPT ![key] = <<cur>>],
         outcome |-> IF cur.minute.count > lim.perMinute \/ cur.day.count > lim.perDay
                     THEN "429" ELSE "next"]

MaxPerMinute == 2
MaxPerDay == 3
MaxRequests == 4

\* the instants at which the clock is read: around the start and around midnight
ClockInstants == {0, MinuteMs \div 2, MinuteMs, DayMs - MinuteMs \div 2, DayMs}

InitLimiter ==
    /\ now = 0
    /\ limits \in {[perMinute |-> m, perDay |-> d] :
                     m \in (MaxPerMinute - 1)..MaxPerMinute, d \in (MaxPerDay - 1)..MaxPerDay}
    /\ store = [key \in Keys |-> <<>>]
    /\ served = <<>>
    /\ QueueIdle
    /\ ProfilerIdle
    /\ StatsIdle
    /\ QAIdle
    /\ SanitizeIdle

\* time passes between two requests
ClockAdvances(t) ==
    /\ t > now
    /\ now' = t
    /\ UNCHANGED <<uiVars, profVars, statVars, limiterVars, qaVars, sanitizeVars>>

\* part_008 line 891: a request of `user` reaches the route's middleware
SearchRequest(user) ==
    /\ Len(served) < MaxRequests
    /\ LET r == rateLimiter(store, limits, user, now)
       IN  /\ store' = r.store
           /\ served' = Append(served, [key |-> getKey(user), at |-> now, outcome |-> r.outcome])
    /\ UNCHANGED <<uiVars, profVars, statVars, now, limits, qaVars, sanitizeVars>>

NextLimiter ==
    \/ \E t \in ClockInstants : ClockAdvances(t)
    \/ \E user \in Callers : SearchRequest(user)

SpecLimiter == InitLimiter /\ [][NextLimiter]_vars

-----------------------------------------------------------------------------
(* The question-answering service: backend/src/services/qa.ts, with the    *)
(* model of src/services/gemini.ts (part_007) and the hook of its test     *)

\* the model gemini.ts obtains from the SDK, the model a test injects
Gemini == "gemini"
Fake == "fake"

FailureWindowMs == 15 * 60 * 1000
OpenPeriodMs == 30 * 60 * 1000
FailureThreshold == 5
DefaultTimeoutMs == 15000

\* qa.ts line 33
breakerOpen(b, t) == b.openUntil > t

\* the failures at or after the cutoff, in order
RECURSIVE NotBefore(_, _)
NotBefore(times, cutoff) ==
    IF times = <<>> THEN <<>>
    ELSE (IF Head(times) >= cutoff THEN <<Head(times)>> ELSE <<>>)
         \o NotBefore(Tail(times), cutoff)

\* a breaker that never forgets a failure
recordFailureKeepingAll(b, t) ==
    LET kept == Append(b.failures, t)
    IN  [failures |-> kept,
         openUntil |-> IF Len(kept) >= FailureThreshold THEN t + OpenPeriodMs ELSE b.openUntil]

\* lines 35-42
recordFailure(b, t) ==
    LET kept == NotBefore(Append(b.failures, t), t - FailureWindowMs)
    IN  [failures |-> kept,
         openUntil |-> IF Len(kept) >= FailureThreshold THEN t + OpenPeriodMs ELSE b.openUntil]

\* lines 44-47
resetBreaker == [failures |-> <<>>, openUntil |-> 0]

\* context.columns as the routes pass it on: an array of names, or whatever else the
\* request body held there (part_008 line 858: columns = datasetData.columns)
NamesArray == [t |-> "array", items |-> <<>>]
ColumnsInputs == {NamesArray, IntV(5)}

\* lines 51-53: (ctx.columns || []).slice(0, 50) is a TypeError for a truthy value
\* without a slice method (a number other than 0, true, an object)
promptFromThrows(columns) ==
    /\ columns.t # "array"
    /\ columns.t # "str"
    /\ ~(columns.t \in {"null", "undef", "nan"})
    /\ ~(columns.t = "num" /\ columns.n = 0)
    /\ ~(columns.t = "bool" /\ ~columns.b)

\* lines 93-99
fallbackRes == [answer |-> "I apologize, I cannot process your query at this moment.",
                meta |-> [model |-> "fallback", fallback |-> TRUE]]

\* what generateContent of a model resolves to: JSON text with an answer field, or
\* text that is no JSON
AnswerOf(model) == IF model = Fake THEN "ok" ELSE "42"
JsonReply(model) == [kind |-> "json", answer |-> AnswerOf(model)]
TextReply == [kind |-> "text", text |-> "hello"]
Replies(model) == {JsonReply(model), TextReply}

\* lines 138-159: the result built from the text of the reply
answerRes(reply) ==
    [answer |-> IF reply.kind = "json" THEN reply.answer ELSE reply.text,
     meta |-> [model |-> "gemini-pro", fallback |-> FALSE]]

\* how a call ended: resolved with a result (by a guard, the model or the timer), or
\* rejected with the error thrown while the prompt was built
Resolved(id, result, by) == <<[call |-> id, outcome |-> "resolved", result |-> result, by |-> by]>>
Rejected(id) == <<[call |-> id, outcome |-> "rejected", by |-> "prompt"]>>

MaxCalls == 6
MaxInFlight == 2

\* config.timeoutMs of both routes (part_008 lines 867, 988) and the default of line 91
Timeouts == {DefaultTimeoutMs}
CallOpts == [timeoutMs : Timeouts, columns : ColumnsInputs]

\* the instants at which calls start: the server's start, the ends of the failure
\* window and of the open period counted from it, and one ms past each
QAInstants == {0, FailureWindowMs, FailureWindowMs + 1, OpenPeriodMs}

Deadlines == {c.deadline : c \in inflight}

InitQA ==
    /\ now = 0
    /\ isGeminiConfigured \in BOOLEAN
    /\ gemModel \in (IF isGeminiConfigured THEN {Gemini, NoModel} ELSE {NoModel})
    /\ localModel = gemModel
    /\ breaker = [failures |-> <<>>, openUntil |-> 0]
    /\ inflight = {}
    /\ settled = <<>>
    /\ calls = 0
    /\ failedSince = <<>>
    /\ openedAt = <<>>
    /\ QueueIdle
    /\ ProfilerIdle
    /\ StatsIdle
    /\ LimiterIdle
    /\ SanitizeIdle

\* time passes; a timer that is due fires before the clock moves on
TimePasses(t) ==
    /\ t > now
    /\ \A d \in Deadlines : t <= d
    /\ now' = t
    /\ UNCHANGED <<uiVars, profVars, statVars, limiterVars, qaVars, sanitizeVars>>

\* lines 178-180
SetModel(m) ==
    /\ localModel # m
    /\ localModel' = m
    /\ UNCHANGED <<uiVars, profVars, statVars, limiterVars, sanitizeVars, now,
                   isGeminiConfigured, gemModel, breaker, inflight, settled, calls,
                   failedSince, openedAt>>

\* lines 90-133: generateGeminiAnswer up to its first await
StartCall(opts) ==
    /\ calls < MaxCalls
    /\ Cardinality(inflight) < MaxInFlight
    /\ now \in QAInstants
    /\ calls' = calls + 1
    /\ IF promptFromThrows(opts.columns)
       THEN /\ settled' = Rejected(calls + 1)
            /\ UNCHANGED <<localModel, inflight>>
       ELSE IF ~isGeminiConfigured \/ breakerOpen(breaker, now)
       THEN /\ settled' = Resolved(calls + 1, fallbackRes, "guard")
            /\ UNCHANGED <<localModel, inflight>>
       ELSE /\ localModel' = gemModel
            /\ IF gemModel = NoModel
               THEN /\ settled' = Resolved(calls + 1, fallbackRes, "guard")
                    /\ UNCHANGED inflight
               ELSE /\ inflight' = inflight \cup
                          {[id |-> calls + 1, injected |-> localModel, model |-> gemModel,
                            deadline |-> now + opts.timeoutMs]}
                    /\ UNCHANGED settled
    /\ UNCHANGED <<uiVars, profVars, statVars, limiterVars, sanitizeVars, now,
                   isGeminiConfigured, gemModel, breaker, failedSince, openedAt>>

\* lines 161-171: the catch block
Failed(c, by) ==
    /\ breaker' = recordFailure(breaker, now)
    /\ failedSince' = Append(failedSince, now)
    /\ openedAt' = IF Len(breaker'.failures) >= FailureThreshold THEN <<now>> ELSE openedAt
    /\ settled' = Resolved(c.id, fallbackRes, by)
    /\ inflight' = inflight \ {c}

\* lines 133-160: the model's promise wins the race
ModelAnswers(c, reply) ==
    /\ c \in inflight
    /\ breaker' = resetBreaker
    /\ failedSince' = <<>>
    /\ settled' = Resolved(c.id, answerRes(reply), "model")
    /\ inflight' = inflight \ {c}
    /\ UNCHANGED openedAt
    /\ UNCHANGED <<uiVars, profVars, statVars, limiterVars, sanitizeVars, now,
                   isGeminiConfigured, gemModel, localModel, calls>>

\* lines 131-135: generateContent throws, its promise rejects, or what it resolved to
\* has no response to read
ModelFails(c) ==
    /\ c \in inflight
    /\ Failed(c, "model")
    /\ UNCHANGED <<uiVars, profVars, statVars, limiterVars, sanitizeVars, now,
                   isGeminiConfigured, gemModel, localModel, calls>>

\* line 132: the timer rejects with 'timeout'
TimerFires(c) ==
    /\ c \in inflight
    /\ now >= c.deadline
    /\ Failed(c, "timer")
    /\ UNCHANGED <<uiVars, profVars, statVars, limiterVars, sanitizeVars, now,
                   isGeminiConfigured, gemModel, localModel, calls>>

NextQA ==
    \/ \E t \in QAInstants \cup Deadlines : TimePasses(t)
    \/ SetModel(Fake)
    \/ \E opts \in CallOpts : StartCall(opts)
    \/ \E c \in inflight : \E reply \in Replies(c.model) : ModelAnswers(c, reply)
    \/ \E c \in inflight : ModelFails(c)
    \/ \E c \in inflight : TimerFires(c)

SpecQA == InitQA /\ [][NextQA]_vars

-----------------------------------------------------------------------------
(* The sample sanitizer: src/utils/sanitize.ts (part_005)                  *)
(*                                                                         *)
(* Every regular expression is tested from index 0: lines 26-28 reset      *)
(* lastIndex after each cell.                                              *)

\* line 1, EMAIL_RE: [A-Za-z0-9._%+-]+ @ [A-Za-z0-9.-]+ \. [A-Za-z]{2,}
EmailLocalChar(c) == IsLetter(c) \/ IsDigit(c) \/ c \in {".", "_", "%", "+", "-"}
EmailDomainChar(c) == IsLetter(c) \/ IsDigit(c) \/ c \in {".", "-"}
hasEmail(s) ==
    \E i \in 2..Len(s) :
        /\ s[i] = "@"
        /\ EmailLocalChar(s[i - 1])
        /\ \E j \in (i + 2)..(Len(s) - 2) :
              /\ s[j] = "."
              /\ \A k \in (i + 1)..(j - 1) : EmailDomainChar(s[k])
              /\ IsLetter(s[j + 1])
              /\ IsLetter(s[j + 2])

\* [\s-]
IsSeparator(c) == c \in SpaceChars \/ c = "-"

\* `need` digits from position p on, each optionally followed by one separator
RECURSIVE DigitRun(_, _, _)
DigitRun(s, p, need) ==
    \/ need = 0
    \/ /\ p <= Len(s)
       /\ IsDigit(s[p])
       /\ \/ DigitRun(s, p + 1, need - 1)
          \/ /\ p + 1 <= Len(s)
             /\ IsSeparator(s[p + 1])
             /\ DigitRun(s, p + 2, need - 1)

\* line 2, PHONE_RE: (?:\+\d{1,3}[\s-]?)?(?:\d[\s-]?){10,14}; the optional prefix and
\* the digits after the tenth do not decide whether there is a match
MinPhoneDigits == 10
hasPhone(s) == \E p \in 1..Len(s) : DigitRun(s, p, MinPhoneDigits)

\* four digits from position p on
FourDigits(s, p) == p + 3 <= Len(s) /\ \A k \in p..(p + 3) : IsDigit(s[k])

\* line 3, AADHAAR_RE: \b\d{4}[\s-]?\d{4}[\s-]?\d{4}\b
hasAadhaar(s) ==
    \E p \in 1..Len(s) : \E g1, g2 \in {0, 1} :
        LET p2 == p + 4 + g1
            p3 == p2 + 4 + g2
            last == p3 + 3
        IN  /\ (p = 1 \/ ~IsWordChar(s[p - 1]))
            /\ FourDigits(s, p)
            /\ (g1 = 1 => IsSeparator(s[p + 4]))
            /\ FourDigits(s, p2)
            /\ (g2 = 1 => IsSeparator(s[p2 + 4]))
            /\ FourDigits(s, p3)
            /\ (last = Len(s) \/ ~IsWordChar(s[last + 1]))

\* a mask that hides the digits only
maskDigitsOnly(s) == [i \in 1..Len(s) |-> IF IsDigit(s[i]) THEN "*" ELSE s[i]]

\* line 7
mask(s) == [i \in 1..Len(s) |-> IF IsLetter(s[i]) \/ IsDigit(s[i]) THEN "*" ELSE s[i]]

SampleRowLimit == 5
MaskedCellLen == 64
SampleColumnLimit == 50

\* String.prototype.slice(0, n), Array.prototype.slice(0, n)
SliceTo(s, n) == SubSeq(s, 1, IF Len(s) < n THEN Len(s) ELSE n)

\* line 15: the text the expressions are tested on.  JSON.stringify(undefined) is
\* undefined, which RegExp.prototype.test reads as the text "undefined"
CellText(v) == IF v.t = "str" THEN v.s ELSE ToText(JsonToken(v))

\* lines 16-19
isPII(v) == hasEmail(CellText(v)) \/ hasPhone(CellText(v)) \/ hasAadhaar(CellText(v))

\* lines 20-25
SanitizedCell(v) ==
    IF isPII(v) THEN Chars(SliceTo(mask(CellText(v)), MaskedCellLen)) ELSE v

\* lines 9-34
sanitizeSample(columns, rows) ==
    LET kept == SliceTo(rows, SampleRowLimit)
    IN  [rows |-> [i \in 1..Len(kept) |-> [k \in DOMAIN kept[i] |-> SanitizedCell(kept[i][k])]],
         columns |-> SliceTo(columns, SampleColumnLimit),
         piiDetected |-> \E i \in 1..Len(kept) : \E k \in DOMAIN kept[i] : isPII(kept[i][k])]

\* the cells of the test (sanitize.test.ts line 7) and cells around the expressions
EmailText == <<"a", "@", "b", ".", "c", "o", "m">>
PhoneText == <<"+", "9", "1", " ", "9", "8", "7", "6", "5", "4", "3", "2", "1", "0">>
AadhaarText == <<"1", "2", "3", "4", " ", "5", "6", "7", "8", " ", "9", "0", "1", "2">>
\* an address followed by a note: 65 characters
LongEmailNote == EmailText \o <<" ">> \o [i \in 1..57 |-> "x"]
CellValues ==
    {Chars(EmailText), Chars(PhoneText), Chars(AadhaarText), Chars(<<"X">>),
     Chars(LongEmailNote), Chars(<<"a", "@", "b">>), Chars(<<"1", "2", "3", "4", "5">>),
     IntV(5), Null}

TestSample ==
    [columns |-> <<"email", "phone", "aadhaar", "name">>,
     rows |-> <<[email |-> Chars(EmailText), phone |-> Chars(PhoneText),
                 aadhaar |-> Chars(AadhaarText), name |-> Chars(<<"X">>)]>>]

\* one row of two cells; SampleRowLimit + 1 rows of one cell, an address or a letter
Samples ==
    {TestSample}
    \cup {[columns |-> <<"a", "b">>, rows |-> <<[a |-> x, b |-> y]>>] : x, y \in CellValues}
    \cup {[columns |-> <<"a">>, rows |-> [i \in 1..(SampleRowLimit + 1) |-> [a |-> cells[i]]]] :
            cells \in [1..(SampleRowLimit + 1) -> {Chars(EmailText), Chars(<<"X">>)}]}

InitSanitize ==
    /\ sample \in Samples
    /\ sanitized = <<>>
    /\ now = 0
    /\ QueueIdle
    /\ ProfilerIdle
    /\ StatsIdle
    /\ LimiterIdle
    /\ QAIdle

\* part_008 line 973
SanitizeSample ==
    /\ sanitized = <<>>
    /\ sanitized' = <<sanitizeSample(sample.columns, sample.rows)>>
    /\ UNCHANGED <<uiVars, profVars, statVars, now, limiterVars, qaVars, sample>>

NextSanitize == SanitizeSample

SpecSanitize == InitSanitize /\ [][NextSanitize]_vars


-----------------------------------------------------------------------------
(* Properties of the queue and of the apply boundary                       *)

\* the kind-specific redundancy rule: a repeats b
ClaimRedundantPair(a, b) ==
    /\ a.type = b.type
    /\ \/ ~HasField(a, "columnName")
       \/ /\ a.type = "REPLACE_SUBSTRING"
          /\ HasField(b, "columnName")
          /\ b.payload.columnName = a.payload.columnName
          /\ b.payload.find = a.payload.find
       \/ /\ a.type # "REPLACE_SUBSTRING"
          /\ HasField(b, "columnName")
          /\ b.payload.columnName = a.payload.columnName

ClaimRejects(queue, a) == \E i \in 1..Len(queue) : ClaimRedundantPair(a, queue[i])

\* the preview of a dataset under the empty queue: every cell unchanged
CleanPreview(ds) ==
    [data |-> [i \in 1..Len(ds.data) |->
                 [k \in DOMAIN ds.data[i] |-> [value |-> ds.data[i][k], isChanged |-> FALSE]]],
     stats |-> [missing |-> CountMissing(WrapRows(ds.data)),
                dups |-> CountDups(WrapRows(ds.data))],
     origin |-> [i \in 1..Len(ds.data) |-> i]]

\* C1: in every rendered state the preview is the fold of the rendered queue,
\* in its order, over the rows of the baseline wrapped with isChanged = FALSE
\* (nothing of a removed action or of an earlier order remains)
PreviewIsFoldOfQueue ==
    preview = FinishPreview(FoldActions(InitialFold(dataset), actions))

\* C1 witness: two actions were accepted, the first one was removed again and
\* the render has happened; the remaining action changes the preview
PreviewAfterRemoval ==
    /\ applies = 0
    /\ nextId = 2
    /\ pendActions = <<>>
    /\ Ids(actions) = {1}
    /\ preview # CleanPreview(dataset)

\* C2 (as stated): the rendered queue never holds two actions of which one
\* repeats the other under the kind-specific rule
QueueHoldsNoRedundantPair ==
    \A i, j \in 1..Len(actions) : i # j => ~ClaimRedundantPair(actions[i], actions[j])

ApplyLeavesEmptyQueue ==
    [][dataset' # dataset =>
          /\ Ids(actions') \cap Ids(actions) = {}
          /\ actions' = <<>> => preview' = CleanPreview(dataset')]_vars

\* C4 witness: an apply of a queue of two actions was committed and the
\* baseline changed
AppliedQueueOfTwo ==
    /\ applies = 1
    /\ nextId = 2
    /\ pendDataset = <<>>
    /\ dataset # BaseDataset

\* C5: a step that is not a call of handleApplyChanges enqueues no dataset
\* update, and the baseline only ever changes to a value that an apply
\* enqueued
BaselineChangesOnlyByApply ==
    [][/\ applies' = applies => pendDataset' = pendDataset \/ pendDataset' = <<>>
       /\ dataset' # dataset => pendDataset # <<>> /\ dataset' = pendDataset[1]]_vars

\* C5 witness: two proposals were accepted and the queue was emptied again
\* without any apply; the baseline is still the uploaded dataset
QueueEmptiedWithoutApply ==
    /\ applies = 0
    /\ nextId = 2
    /\ actions = <<>>
    /\ pendActions = <<>>
    /\ dataset = BaseDataset


-----------------------------------------------------------------------------
(* Properties of one evaluation of the memo                                *)

\* the evaluation is inside its loop and the next step runs an action of
\* this kind
StepRuns(type) == pc < Len(actions) /\ pc' = pc + 1 /\ actions[pc + 1].type = type

\* the memo has returned
Returned == pc = Len(actions) + 1

\* the value the row that is now at index i held in the baseline at column k
BaselineValue(origin, i, k) ==
    IF k \in DOMAIN dataset.data[origin[i]] THEN dataset.data[origin[i]][k] ELSE Undef

\* a missing value: null, undefined or the empty string
ClaimMissing(v) == v.t \in {"null", "undef"} \/ (v.t = "str" /\ v.s = <<>>)

DropsColumn(queue, c) ==
    \E i \in 1..Len(queue) :
        queue[i].type = "DROP_COLUMN" /\ queue[i].payload.columnName = c

\* C6 (as stated): once the memo has returned for a queue that drops column
\* c, no preview row holds a value other than undefined at c, and c is
\* neither in the preview's column list nor in the exported header
DroppedColumnStaysAbsent ==
    Returned =>
        \A c \in Range(dataset.columns) :
            DropsColumn(actions, c) =>
                /\ \A i \in 1..Len(preview.data) : c \notin DOMAIN Flatten(preview.data[i])
                /\ c \notin Range(previewColumns(dataset, preview))
                /\ c \notin Range(finalColumns(dataset, actions))

\* C7: a remove-duplicates step keeps exactly the rows whose serialization
\* (of the values the earlier actions left) no earlier row has, in their
\* order; of [{x:1,y:2},{x:1,y:2},{x:3,y:4}] it keeps rows 1 and 3
RemoveDuplicatesKeepsEarliest ==
    [][StepRuns("REMOVE_DUPLICATES") =>
          LET old == processed.rows
              new == processed'.rows
              Key(r) == stableKey(RowValues(r))
              earliest == {i \in 1..Len(old) : \A j \in 1..(i - 1) : Key(old[j]) # Key(old[i])}
              Rank(i) == Cardinality({j \in earliest : j <= i})
          IN  /\ Len(new) = Cardinality(earliest)
              /\ \A i \in earliest : new[Rank(i)] = old[i]
              /\ \A i \in earliest : processed'.origin[Rank(i)] = processed.origin[i]
              /\ old = WrapRows(DatasetXY.data) => new = <<old[1], old[3]>>]_vars

\* C7 witness: the baseline has no duplicate rows, lowercase made rows 1 and
\* 3 equal, and remove-duplicates then dropped row 3
DuplicatesAfterLowercaseRemoved ==
    /\ Len(actions) = 2
    /\ pc = 2
    /\ actions[1].type = "LOWERCASE"
    /\ actions[2].type = "REMOVE_DUPLICATES"
    /\ CountDups(WrapRows(dataset.data)) = 0
    /\ processed.origin = <<1, 2>>

Prefix(m) == FoldActions(InitialFold(dataset), SubSeq(actions, 1, m))

\* the index in the fold state st of the row wrapped from baseline row o
RowOf(st, o) == CHOOSE i \in 1..Len(st.rows) : st.origin[i] = o

\* action m of the queue wrote a different value into cell k of the row
\* wrapped from baseline row o, or dropped column k
StepChanged(m, o, k) ==
    LET before == Prefix(m - 1)
        after == Prefix(m)
    IN  \/ CellValue(before.rows[RowOf(before, o)], k)
             # CellValue(after.rows[RowOf(after, o)], k)
        \/ actions[m].type = "DROP_COLUMN" /\ actions[m].payload.columnName = k

FillMissingWritesOnlyMissing ==
    [][StepRuns("FILL_MISSING") =>
          LET c == actions[pc + 1].payload.columnName
              old == processed.rows
              new == processed'.rows
          IN  /\ Len(new) = Len(old)
              /\ processed'.origin = processed.origin
              /\ \A i \in 1..Len(old) :
                    /\ DOMAIN new[i] = DOMAIN old[i]
                    /\ \A k \in DOMAIN old[i] :
                          (k # c \/ ~ClaimMissing(old[i][k].value)) => new[i][k] = old[i][k]]_vars

\* C9 witness: a fill-missing step filled a missing cell of its column and
\* left a non-missing cell of the same column unflagged
FillFilledOneAndKeptOne ==
    /\ 1 <= pc /\ pc <= Len(actions)
    /\ actions[pc].type = "FILL_MISSING"
    /\ LET c == actions[pc].payload.columnName
       IN  /\ \A i \in 1..Len(processed.rows) : c \in DOMAIN processed.rows[i]
           /\ \E i \in 1..Len(processed.rows) : processed.rows[i][c].isChanged
           /\ \E i \in 1..Len(processed.rows) : ~processed.rows[i][c].isChanged

\* the mean of the numeric-parseable values among the values that are not
\* missing (Null when there is none)
ClaimMean(values) ==
    LET present == FilterSeq(values, LAMBDA v : ~ClaimMissing(v))
    IN  mean([i \in 1..Len(present) |-> parseNumberLike(present[i])])

\* C10 (as stated): a fill-missing step with strategy mean writes into every
\* missing cell of the column the mean of the column's numeric-parseable
\* values, missing cells not counted
FillMeanIgnoresMissing ==
    [][StepRuns("FILL_MISSING") /\ actions[pc + 1].payload.strategy = "mean" =>
          LET c == actions[pc + 1].payload.columnName
              old == processed.rows
              new == processed'.rows
              m == ClaimMean([i \in 1..Len(old) |-> CellValue(old[i], c)])
          IN  m # Null =>
                \A i \in 1..Len(old) :
                    (c \in DOMAIN old[i] /\ ClaimMissing(old[i][c].value))
                        => new[i][c].value = m]_vars

\* C10 witness: for age = [10, null, 30] the mean fill wrote 20
MeanOfTenAndThirty ==
    /\ dataset = DatasetAgeNull
    /\ pc = 1
    /\ Len(actions) >= 1
    /\ actions[1].type = "FILL_MISSING"
    /\ actions[1].payload.strategy = "mean"
    /\ processed.rows[2]["age"].value = IntV(20)


\* a value that is no finite number: a missing value, or a text without a digit
ClaimHoldsNoNumber(v) ==
    \/ ClaimMissing(v)
    \/ v.t = "str" /\ \A i \in 1..Len(v.s) : ~IsDigit(v.s[i])

\* C11 (as stated): a round or scale step on column c leaves every cell of c
\* whose value is no finite number (a missing cell, a text that holds no
\* number) with the same value and the same flag
RoundAndScaleSkipNonNumbers ==
    [][StepRuns("NUMBER_ROUND") \/ StepRuns("NUMBER_SCALE") =>
          LET c == actions[pc + 1].payload.columnName
          IN  /\ Len(processed'.rows) = Len(processed.rows)
              /\ \A i \in 1..Len(processed.rows) :
                    (c \in DOMAIN processed.rows[i]
                       /\ ClaimHoldsNoNumber(processed.rows[i][c].value))
                        => processed'.rows[i][c] = processed.rows[i][c]]_vars


\* C12 (as stated): a change-type step to Integer or Float writes null into
\* every cell whose value is no finite number (a missing value, a text without
\* a digit, a value the numeric parse rejects), and a change-type step to Date
\* writes null into every cell whose value is no date (a missing value, a text
\* without a digit, a value date parsing rejects)
ChangeTypeFailsToNull ==
    [][StepRuns("CHANGE_TYPE") =>
          LET c == actions[pc + 1].payload.columnName
              t == actions[pc + 1].payload.newType
              old == processed.rows
              new == processed'.rows
          IN  /\ Len(new) = Len(old)
              /\ \A i \in 1..Len(old) :
                    c \in DOMAIN old[i] =>
                       LET v == old[i][c].value
                           w == new[i][c].value
                       IN  /\ (/\ t \in {"Integer", "Float"}
                               /\ (ClaimHoldsNoNumber(v) \/ ~IsFinite(parseNumberLike(v))))
                                 => w = Null
                           /\ (/\ t = "Date"
                               /\ (ClaimHoldsNoNumber(v) \/ toDateOrNull(v) = Null))
                                 => w = Null]_vars

\* C12: change-type to Integer has turned 1.5 into 1 and the text "-" into
\* null
DashBecameNull ==
    /\ dataset = DatasetAgeDash
    /\ pc = 1
    /\ Len(actions) >= 1
    /\ actions[1].type = "CHANGE_TYPE"
    /\ actions[1].payload.newType = "Integer"
    /\ processed.rows[1]["age"] = Cell(IntV(1), TRUE)
    /\ processed.rows[2]["age"] = Cell(Null, TRUE)


\* a value that is a finite number: it holds a number and the numeric parse
\* accepts it
ClaimFiniteNumber(v) == ~ClaimHoldsNoNumber(v) /\ IsFinite(parseNumberLike(v))

\* C13 (as stated): a scale step on column c writes, into every cell of c that
\* holds a finite number v, scaleMin + (v - min) / (max - min) * (scaleMax -
\* scaleMin), min and max being the least and greatest finite number of c before
\* the step, and scaleMin when min = max; the result lies between scaleMin and
\* scaleMax
ScaleMapsOntoRange ==
    [][StepRuns("NUMBER_SCALE") =>
          LET a == actions[pc + 1]
              c == a.payload.columnName
              old == processed.rows
              new == processed'.rows
              lo == IF HasField(a, "scaleMin") THEN a.payload.scaleMin ELSE IntV(0)
              hi == IF HasField(a, "scaleMax") THEN a.payload.scaleMax ELSE IntV(1)
              I == {i \in 1..Len(old) :
                      c \in DOMAIN old[i] /\ ClaimFiniteNumber(old[i][c].value)}
              F == {parseNumberLike(old[i][c].value) : i \in I}
              min == CHOOSE x \in F : \A y \in F : RLeq(x, y)
              max == CHOOSE x \in F : \A y \in F : RLeq(y, x)
          IN  /\ Len(new) = Len(old)
              /\ \A i \in I :
                    LET v == parseNumberLike(old[i][c].value)
                        w == new[i][c].value
                    IN  /\ w = IF min = max THEN lo
                               ELSE RAdd(lo, RMul(RDiv(RSub(v, min), RSub(max, min)),
                                                  RSub(hi, lo)))
                        /\ RLeq(lo, w) /\ RLeq(w, hi)]_vars

\* C13: the column [0, 5, 10] scaled onto [0, 1] holds [0, 0.5, 1]
ScaledZeroFiveTen ==
    /\ dataset = DatasetZeroFiveTen
    /\ pc = 1
    /\ Len(actions) >= 1
    /\ actions[1].type = "NUMBER_SCALE"
    /\ ~HasField(actions[1], "scaleMin")
    /\ processed.rows[1]["age"] = Cell(IntV(0), FALSE)
    /\ processed.rows[2]["age"] = Cell(Num(1, 2), TRUE)
    /\ processed.rows[3]["age"] = Cell(IntV(1), TRUE)


\* the text a transform makes of a text
ClaimTransformed(type, text) ==
    CASE type = "TRIM_WHITESPACE" -> StrTrim(text)
      [] type = "LOWERCASE" -> StrLower(text)
      [] type = "UPPERCASE" -> StrUpper(text)
      [] type = "REMOVE_NON_ALPHANUM" -> StrKeepAlphanum(text)
      [] type = "CAPITALIZE_WORDS" -> StrCapitalize(text)

\* C14: a text transform step on column c leaves value and flag of every cell
\* of c whose value is null, or is a text the transform maps to itself, as they
\* were
TextTransformSkipsFixedPoints ==
    [][(\E ty \in TextTransformTypes : StepRuns(ty)) =>
          LET a == actions[pc + 1]
              c == a.payload.columnName
              old == processed.rows
              new == processed'.rows
          IN  /\ Len(new) = Len(old)
              /\ \A i \in 1..Len(old) :
                    c \in DOMAIN old[i] =>
                       LET v == old[i][c].value
                       IN  (\/ v = Null
                            \/ v.t = "str" /\ ClaimTransformed(a.type, v.s) = v.s)
                              => new[i][c] = old[i][c]]_vars

\* C14 witness: trimming has changed the padded name and left the missing name
\* and the already trimmed name unflagged
TrimKeptTrimmedName ==
    /\ dataset = DatasetNames
    /\ pc = 1
    /\ Len(actions) >= 1
    /\ actions[1].type = "TRIM_WHITESPACE"
    /\ processed.rows[1]["name"] = Cell(Chars(Str1("b")), TRUE)
    /\ processed.rows[2]["name"] = Cell(Null, FALSE)
    /\ processed.rows[3]["name"] = Cell(Chars(<<"a", "-">>), FALSE)


\* C15: a replace-substring step whose find-text is empty leaves the rows, their
\* order, and every cell's value and flag as they were
ReplaceWithEmptyFindChangesNothing ==
    [][StepRuns("REPLACE_SUBSTRING") /\ actions[pc + 1].payload.find = <<>>
          => processed'.rows = processed.rows]_vars

\* C15 witness: a replace with an empty find-text has run as the second step,
\* after a step that flagged a cell
EmptyFindRanAfterChange ==
    /\ Len(actions) = 2
    /\ pc = 2
    /\ actions[2].type = "REPLACE_SUBSTRING"
    /\ actions[2].payload.find = <<>>
    /\ \E i \in 1..Len(processed.rows) :
          "name" \in DOMAIN processed.rows[i] /\ processed.rows[i]["name"].isChanged


\* C16: a step that rejects a proposal (the handler ends with an error
\* notification: the proposal repeats an action, or the Replace button was
\* pressed with an empty find-text) leaves the rendered queue, the enqueued
\* queue, the baseline and the preview as they were
RejectionLeavesQueue ==
    [][toast'.kind = "error" =>
          /\ actions' = actions
          /\ pendActions' = pendActions
          /\ dataset' = dataset
          /\ pendDataset' = pendDataset
          /\ preview' = preview]_vars

\* C16 witness: the Replace button was pressed with an empty find-text while the
\* rendered queue held an action that changes the preview
EmptyFindRejected ==
    /\ toast = EmptyFindToast
    /\ Len(actions) = 1
    /\ pendActions = <<>>
    /\ preview # CleanPreview(dataset)


\* the missing cells of a row over the columns the queue does not drop
ClaimMissingCells(row, queue) ==
    {k \in DOMAIN row :
        /\ ~DropsColumn(queue, k)
        /\ row[k].value \in {Null, Chars(<<>>)}}

\* C17 (as stated): once the memo has returned, stats.missing is the number of
\* cells holding null or the empty string in the preview rows over the columns
\* the queue does not drop, and stats.dups is the number of preview rows minus
\* the number of their distinct key-sorted serializations
StatsDescribeFinalPreview ==
    Returned =>
        LET rows == preview.data
        IN  /\ preview.stats.missing =
                 SeqSum([i \in 1..Len(rows) |-> Cardinality(ClaimMissingCells(rows[i], actions))])
            /\ preview.stats.dups =
                 Len(rows) - Cardinality({stableKey(Flatten(rows[i])) : i \in 1..Len(rows)})

\* C17: the memo has returned a preview with a missing cell and a repeated row
StatsCountMissingAndRepeated ==
    /\ Returned
    /\ actions # <<>>
    /\ preview.stats.missing = 1
    /\ preview.stats.dups = 1


-----------------------------------------------------------------------------
(* Properties of the profiling functions                                   *)

\* the type the inference rule gives column c: numeric when the share of the
\* values that parse to a finite number is above 0.8, else categorical when
\* there are at most 50 distinct values or fewer than 0.2 distinct values per
\* value, else date when a value parses as a date, else text; with
\* inclusive, a share of exactly 0.8 and a ratio of exactly 0.2 qualify too
ClaimType(rows, c, lenient, inclusive) ==
    LET I == Present(rows, c)
        total == Cardinality(I)
        parsed == Cardinality({i \in I : IsFinite(NumberOf(rows[i][c]))})
        distinct == Cardinality({rows[i][c] : i \in I})
        Above(a, b, p, q) == a * q > p * b \/ (inclusive /\ a * q = p * b)
    IN  IF total > 0 /\ Above(parsed, total, 4, 5) THEN "numeric"
        \* distinct / total is below 1/5 when total exceeds 5 * distinct
        ELSE IF distinct <= 50 \/ (total > 0 /\ Above(total, distinct * 5, 1, 1))
             THEN "categorical"
        ELSE IF \E i \in I : DateParses(ToText(rows[i][c]), lenient) THEN "date"
        ELSE "text"

\* the name Analytics gives a type
ClaimListName(type) == IF type = "date" THEN "datetime" ELSE type

\* C18 (as stated): every column type that type inference returns is the type
\* of the rule with the thresholds 0.8, 50 and 0.2
TypeInferenceFollowsThresholds ==
    /\ columnInfo # <<>> =>
          \A c \in DOMAIN columnInfo[1] :
              columnInfo[1][c] = ClaimType(table, c, dateLenient, FALSE)
    /\ inferred # <<>> =>
          \A c \in DOMAIN inferred[1] :
              inferred[1][c] = ClaimListName(ClaimType(table, c, dateLenient, FALSE))

\* C18: the column of 5 values of which 4 are distinct was classified
\* categorical
FiveValuesFourDistinct ==
    /\ table = GenColumn(0, 5, 4, 0)
    /\ columnInfo = <<[x |-> "categorical"]>>

\* the column sits on a threshold, or qualifies for more than one type
ClaimOnEdgeOrSeveral(rows, c, lenient) ==
    LET I == Present(rows, c)
        total == Cardinality(I)
        parsed == Cardinality({i \in I : IsFinite(NumberOf(rows[i][c]))})
        distinct == Cardinality({rows[i][c] : i \in I})
        numeric == total > 0 /\ parsed * 5 >= total * 4
        categorical == distinct <= 50 \/ (total > 0 /\ distinct * 5 <= total)
        date == \E i \in I : DateParses(ToText(rows[i][c]), lenient)
    IN  \/ total > 0 /\ parsed * 5 = total * 4
        \/ distinct = 50
        \/ total > 0 /\ distinct * 5 = total
        \/ numeric /\ categorical
        \/ numeric /\ date
        \/ categorical /\ date

\* C19 (as stated): for a column on a threshold (share 0.8, 50 distinct values,
\* ratio 0.2) or qualifying for several types, type inference returns the
\* earliest type it qualifies for in the order numeric, categorical, date, text
TypeInferenceFavorsEarlierType ==
    /\ columnInfo # <<>> =>
          \A c \in DOMAIN columnInfo[1] :
              ClaimOnEdgeOrSeveral(table, c, dateLenient) =>
                  columnInfo[1][c] = ClaimType(table, c, dateLenient, TRUE)
    /\ inferred # <<>> =>
          \A c \in DOMAIN inferred[1] :
              ClaimOnEdgeOrSeveral(table, c, dateLenient) =>
                  inferred[1][c] = ClaimListName(ClaimType(table, c, dateLenient, TRUE))

\* C19: the column of exactly 50 distinct texts was classified categorical
FiftyDistinctIsCategorical ==
    /\ table = GenColumn(0, 50, 50, 0)
    /\ columnInfo = <<[x |-> "categorical"]>>

\* a cell that holds a finite number
ClaimHoldsFinite(v) == ~isMissing(v) /\ IsFinite(NumberOf(v))

\* the coefficient of the rows in which x and y both hold a finite number
ClaimPearson(rows) ==
    LET I == {i \in 1..Len(rows) : ClaimHoldsFinite(rows[i].x) /\ ClaimHoldsFinite(rows[i].y)}
        k == Cardinality(I)
        Sum(F(_)) == RSum([i \in 1..Len(rows) |-> IF i \in I THEN F(i) ELSE IntV(0)])
        X(i) == NumberOf(rows[i].x)
        Y(i) == NumberOf(rows[i].y)
        mx == RDiv(Sum(X), IntV(k))
        my == RDiv(Sum(Y), IntV(k))
        DXY(i) == RMul(RSub(X(i), mx), RSub(Y(i), my))
        DXX(i) == RMul(RSub(X(i), mx), RSub(X(i), mx))
        DYY(i) == RMul(RSub(Y(i), my), RSub(Y(i), my))
    IN  IF k < 2 THEN ZeroCoefficient
        ELSE Coefficient(Sum(DXY), RMul(Sum(DXX), Sum(DYY)))

\* C20 (as stated): every correlation reported for the columns x and y is the
\* coefficient of the rows in which both hold a finite number, paired row by
\* row, and 0 when there are fewer than 2 such rows or a series does not vary
CorrelationPairsRows ==
    /\ correlations # <<>> =>
          \A i \in 1..Len(correlations[1]) : correlations[1][i].corr = ClaimPearson(table)
    /\ insightPairs # <<>> =>
          \A i \in 1..Len(insightPairs[1]) : insightPairs[1][i].corr = ClaimPearson(table)

\* C20: both components have reported the coefficient -1 for two columns of
\* numbers
BothReportMinusOne ==
    /\ correlations = <<<<[x |-> "x", y |-> "y", corr |-> [sign |-> -1, sq |-> IntV(1)]]>>>>
    /\ insightPairs = correlations
    /\ \A i \in 1..Len(table) : table[i].x.t = "num"

-----------------------------------------------------------------------------
(* Properties of the statistics helpers                                    *)

\* the call zScoreOutliers([10,12,11,13,1000], 2.5) has returned
ExampleCallReturned ==
    /\ numbers = TenToThousand
    /\ thresh = DefaultThresh
    /\ outliers # <<>>

\* C21 as stated: zScoreOutliers([10,12,11,13,1000], 2.5) returns exactly
\* the index of 1000, index 4, and no other index.
ExampleFlagsOnlyThousand ==
    ExampleCallReturned => outliers[1] = <<4>>

\* C21: zScoreOutliers([10,12,11,13,1000], 2.5) returns no index at all:
\* the z-score of 1000 is about 1.79, below the threshold.
ExampleFlagsNothing ==
    ExampleCallReturned => outliers[1] = <<>>

ExampleCallRan == ExampleCallReturned /\ zScoreOutliers(numbers, IntV(1)) = <<4>>

-----------------------------------------------------------------------------
(* Properties of the rate limiter                                          *)

\* the requests of `key` served so far that reached the handler within window w
PassedInMinute(key, w) ==
    {i \in 1..Len(served) : /\ served[i].key = key
                            /\ served[i].outcome = "next"
                            /\ minuteWindow(served[i].at) = w}
PassedInDay(key, w) ==
    {i \in 1..Len(served) : /\ served[i].key = key
                            /\ served[i].outcome = "next"
                            /\ dayWindow(served[i].at) = w}

\* the earlier requests of the same user in the window of request i that passed
EarlierPassedInMinute(i) ==
    {j \in PassedInMinute(served[i].key, minuteWindow(served[i].at)) : j < i}
EarlierPassedInDay(i) ==
    {j \in PassedInDay(served[i].key, dayWindow(served[i].at)) : j < i}

\* the outcomes of the requests of `key` alone, in order
OutcomesOf(key) ==
    LET idx == {i \in 1..Len(served) : served[i].key = key}
    IN  [k \in 1..Cardinality(idx) |-> served[Ascending(idx)[k]].outcome]

\* the same requests of `key` sent to a server that no other user calls
RECURSIVE AloneFrom(_, _, _)
AloneFrom(st, key, i) ==
    IF i > Len(served) THEN <<>>
    ELSE IF served[i].key # key THEN AloneFrom(st, key, i + 1)
    ELSE LET user == CHOOSE u \in Callers : getKey(u) = key
             r == rateLimiter(st, limits, user, served[i].at)
         IN  <<r.outcome>> \o AloneFrom(r.store, key, i + 1)

\* C22: within one clock-minute window at most perMinute requests of a user
\* reach the handler and within one day window at most perDay; every further
\* request of that user in the window is answered 429 and not handed on; what
\* a user gets does not depend on the requests of the other users.
LimiterBoundsEachUser ==
    /\ \A key \in Keys : \A i \in 1..Len(served) :
         /\ Cardinality(PassedInMinute(key, minuteWindow(served[i].at))) <= limits.perMinute
         /\ Cardinality(PassedInDay(key, dayWindow(served[i].at))) <= limits.perDay
    /\ \A i \in 1..Len(served) :
         (\/ Cardinality(EarlierPassedInMinute(i)) >= limits.perMinute
          \/ Cardinality(EarlierPassedInDay(i)) >= limits.perDay)
            => served[i].outcome = "429"
    /\ \A key \in Keys :
         OutcomesOf(key) = AloneFrom([k \in Keys |-> <<>>], key, 1)

\* a user stopped by the day's limit in a fresh minute while another user passes
DayLimitStopsOneUser ==
    \E i, j \in 1..Len(served) :
        /\ served[i].outcome = "429"
        /\ Cardinality(EarlierPassedInMinute(i)) < limits.perMinute
        /\ Cardinality(EarlierPassedInDay(i)) = limits.perDay
        /\ served[j].key # served[i].key
        /\ served[j].outcome = "next"

-----------------------------------------------------------------------------
(* Properties of the question-answering service                            *)

\* a call of generateGeminiAnswer ends in this step
CallEnds == settled' # settled
\* a call of generateGeminiAnswer starts in this step
CallStarts == calls' = calls + 1
\* the call that starts or ends in this step is rejected with the prompt's error
PromptThrew == CallEnds /\ settled'[1].outcome = "rejected"
\* the call that ends in this step returns the fallback result
ReturnsFallback ==
    CallEnds /\ settled'[1].outcome = "resolved" /\ settled'[1].result.meta.fallback

\* C23 as stated: generateGeminiAnswer always resolves with a result and never
\* rejects; the result has meta.fallback = true whenever Gemini is not
\* configured or the model has not answered within config.timeoutMs, and then
\* the call returns at the timeout: no call is awaited beyond its deadline.
AnswerAlwaysResolves ==
    [][/\ CallEnds => settled'[1].outcome = "resolved"
       /\ (CallEnds /\ ~isGeminiConfigured) => ReturnsFallback
       /\ \A c \in inflight :
            (now >= c.deadline /\ c \notin inflight' /\ settled'[1].by = "timer")
               => (ReturnsFallback /\ now' = c.deadline)
       /\ \A c \in inflight' : now' <= c.deadline]_vars

\* a call whose model did not answer has been ended by its timer with the fallback
TimedOutWithFallback ==
    /\ settled # <<>>
    /\ settled[1].by = "timer"
    /\ settled[1].result.meta.fallback
    /\ now = DefaultTimeoutMs

\* C24 as stated: a call that starts while localModel is the model handed to
\* __setModel gets its answer from that model: the model is invoked, and when
\* it returns JSON text with an answer field within the timeout the result
\* carries that answer with meta.fallback = false.
InjectedModelAnswers ==
    [][/\ (CallStarts /\ localModel = Fake /\ ~PromptThrew /\ ~breakerOpen(breaker, now))
            => \E c \in inflight' \ inflight : c.model = Fake
       /\ \A c \in inflight \ inflight' :
            (c.injected = Fake /\ settled' = Resolved(c.id, answerRes(JsonReply(c.model)), "model"))
               => /\ settled'[1].result.answer = AnswerOf(Fake)
                  /\ ~settled'[1].result.meta.fallback]_vars

\* a call that started after __setModel(fake) awaits the module's own model
InjectedModelIgnored ==
    \E c \in inflight : c.injected = Fake /\ c.model = Gemini

\* a model call fails in this step (an error or the timeout)
FailureRecorded == Len(failedSince') = Len(failedSince) + 1
\* a model call succeeds in this step
ModelSucceeded == CallEnds /\ settled'[1].outcome = "resolved" /\ ~settled'[1].result.meta.fallback
\* the failures since the last success that lie within the 15 minutes before `t`
RecentFailures(times, t) == {i \in 1..Len(times) : t - times[i] <= FailureWindowMs}
\* the step leaves the breaker open for the whole open period from now on
OpensNow == breaker'.openUntil = now' + OpenPeriodMs

\* C29: the circuit breaker opens when, and only when, 5 model-call failures
\* have been recorded within 15 minutes with no successful model call between
\* them; a successful model call clears the recorded failures.
BreakerOpensOnFiveFailures ==
    [][/\ FailureRecorded =>
            /\ OpensNow <=> Cardinality(RecentFailures(failedSince', now')) >= FailureThreshold
            /\ ~OpensNow => breaker'.openUntil = breaker.openUntil
       /\ ModelSucceeded => breaker'.failures = <<>>
       /\ (~FailureRecorded /\ ~ModelSucceeded) => breaker' = breaker]_vars

\* the breaker opened by a failure at time 0 and four failures 15 minutes later
OpenedAtWindowEdge ==
    /\ Len(failedSince) = FailureThreshold
    /\ failedSince[1] = 0
    /\ failedSince[FailureThreshold] = FailureWindowMs
    /\ breaker.openUntil = FailureWindowMs + OpenPeriodMs

\* the open period that began when the breaker last opened has not ended at `t`
InOpenPeriod(opened, t) == opened # <<>> /\ t < opened[1] + OpenPeriodMs

\* C30 as stated: once the breaker has opened, every call started during the
\* following 30 minutes (whose prompt could be built) returns the fallback
\* without invoking the model, and nothing closes or shortens the open period
\* before it ends, the completion of calls in flight included.
OpenPeriodLastsThirtyMinutes ==
    [][/\ (CallStarts /\ InOpenPeriod(openedAt, now) /\ ~PromptThrew)
            => (ReturnsFallback /\ inflight' = inflight)
       /\ InOpenPeriod(openedAt', now') => breaker'.openUntil >= openedAt'[1] + OpenPeriodMs]_vars

\* a call started while the breaker was open has returned the fallback
FallbackWhileOpen ==
    /\ settled # <<>>
    /\ settled[1].by = "guard"
    /\ isGeminiConfigured
    /\ gemModel = Gemini
    /\ breakerOpen(breaker, now)
    /\ InOpenPeriod(openedAt, now)

-----------------------------------------------------------------------------
(* Properties of the sample sanitizer                                      *)

\* the number of rows sanitizeSample is to return
ClaimRowCount == IF Len(sample.rows) < SampleRowLimit THEN Len(sample.rows) ELSE SampleRowLimit
\* the text of the cell holds an email address, a phone number or an Aadhaar number
ClaimHoldsPII(v) == hasEmail(CellText(v)) \/ hasPhone(CellText(v)) \/ hasAadhaar(CellText(v))
\* the text of the cell with every letter and digit replaced by '*'
ClaimMasked(v) ==
    Chars([i \in 1..Len(CellText(v)) |->
             IF IsLetter(CellText(v)[i]) \/ IsDigit(CellText(v)[i]) THEN "*" ELSE CellText(v)[i]])
\* the cells of the returned rows that differ from the cells handed in
MaskedCells ==
    {<<i, k>> \in (1..ClaimRowCount) \X {"a", "b", "email", "phone", "aadhaar", "name"} :
        k \in DOMAIN sample.rows[i] /\ sanitized[1].rows[i][k] # sample.rows[i][k]}

\* C25 as stated: for each of the first 5 rows sanitizeSample returns the
\* masked text, every letter and digit replaced by '*', in place of every cell
\* whose text contains an email address, a phone number or a 12-digit Aadhaar
\* number, returns every other cell unchanged, and sets piiDetected exactly
\* when at least one cell was masked.
SanitizeMasksWholeCell ==
    sanitized # <<>> =>
        /\ Len(sanitized[1].rows) = ClaimRowCount
        /\ \A i \in 1..ClaimRowCount :
             /\ DOMAIN sanitized[1].rows[i] = DOMAIN sample.rows[i]
             /\ \A k \in DOMAIN sample.rows[i] :
                  sanitized[1].rows[i][k] =
                      IF ClaimHoldsPII(sample.rows[i][k]) THEN ClaimMasked(sample.rows[i][k])
                      ELSE sample.rows[i][k]
        /\ sanitized[1].piiDetected <=> MaskedCells # {}

\* C25: the same, the masked text being cut to its first 64 characters.
SanitizeMasksFirstCharacters ==
    sanitized # <<>> =>
        /\ Len(sanitized[1].rows) = ClaimRowCount
        /\ \A i \in 1..ClaimRowCount :
             /\ DOMAIN sanitized[1].rows[i] = DOMAIN sample.rows[i]
             /\ \A k \in DOMAIN sample.rows[i] :
                  sanitized[1].rows[i][k] =
                      IF ClaimHoldsPII(sample.rows[i][k])
                      THEN Chars(SliceTo(ClaimMasked(sample.rows[i][k]).s, MaskedCellLen))
                      ELSE sample.rows[i][k]
        /\ sanitized[1].piiDetected <=> MaskedCells # {}

\* the row of the test came back with its three identifiers masked and the name kept
TestRowMasked ==
    /\ sample = TestSample
    /\ sanitized # <<>>
    /\ sanitized[1].piiDetected
    /\ sanitized[1].rows[1].email = Chars(<<"*", "@", "*", ".", "*", "*", "*">>)
    /\ sanitized[1].rows[1].phone =
          Chars(<<"+", "*", "*", " ", "*", "*", "*", "*", "*", "*", "*", "*", "*", "*">>)
    /\ sanitized[1].rows[1].aadhaar =
          Chars(<<"*", "*", "*", "*", " ", "*", "*", "*", "*", " ", "*", "*", "*", "*">>)
    /\ sanitized[1].rows[1].name = Chars(<<"X">>)

-----------------------------------------------------------------------------
(* Properties of the queue and of the preview, continued                   *)

\* the queue without the action that carries `id`, the others in their order
Without(queue, id) == SelectByMask(queue, [i \in 1..Len(queue) |-> queue[i].id # id])

\* C26 as stated: remove(id) removes exactly the action with that id: every
\* other action of the queue, one proposed in the same UI tick as the removal
\* included, remains in the queue in its previous relative order.
RemoveKeepsEveryOtherAction ==
    [][\A id \in Ids(actions) :
          RemoveStep(id) => pendActions' = <<Without(Pending, id)>>]_vars

\* the first of the two rendered actions was removed: the second is enqueued alone
RemovedFirstOfTwo ==
    /\ Ids(actions) = {0, 1}
    /\ pendActions = <<Without(actions, 0)>>
    /\ Ids(Pending) = {1}

\* C27: in every preview, and at every point of its evaluation, a cell whose
\* isChanged flag is false holds exactly the value its row held in the baseline
\* dataset at that column (two Dates being the same value when they denote the
\* same instant).
UnflaggedCellHoldsBaseline ==
    /\ pc <= Len(actions) =>
         \A i \in 1..Len(processed.rows) :
             \A k \in DOMAIN processed.rows[i] :
                 ~processed.rows[i][k].isChanged
                     => processed.rows[i][k].value = BaselineValue(processed.origin, i, k)
    /\ Returned =>
         \A i \in 1..Len(preview.data) :
             \A k \in DOMAIN preview.data[i] :
                 ~preview.data[i][k].isChanged
                     => preview.data[i][k].value = BaselineValue(preview.origin, i, k)

\* a returned preview of two actions has a row with a flagged cell that differs from
\* the baseline beside an unflagged cell
UnflaggedBesideFlagged ==
    /\ Returned
    /\ Len(actions) = 2
    /\ \E i \in 1..Len(preview.data) :
           \E k, l \in DOMAIN preview.data[i] :
               /\ preview.data[i][k].isChanged
               /\ preview.data[i][k].value # BaselineValue(preview.origin, i, k)
               /\ ~preview.data[i][l].isChanged

\* C28: whenever remove-duplicates is the last action of the queue, the
\* duplicate count reported for the preview is 0, whatever actions precede it.
NoDuplicatesAfterFinalRemove ==
    (Returned /\ actions # <<>> /\ actions[Len(actions)].type = "REMOVE_DUPLICATES")
        => preview.stats.dups = 0

\* remove-duplicates ran last, after another action, and removed a row
FinalRemoveDroppedRow ==
    /\ Returned
    /\ Len(actions) = 2
    /\ actions[2].type = "REMOVE_DUPLICATES"
    /\ Len(preview.data) < Len(dataset.data)
    /\ preview.stats.dups = 0

====
